---------------------------- MODULE Spec2Model ----------------------------
(***************************************************************************)
(* A model of the autoquery backend: the validator (validator.js), the     *)
(* self-consistency engine (self-consistency.js), the genre registry       *)
(* matcher (genre-registry.js) and the crawl orchestrator (crawler.js).    *)
(*                                                                         *)
(* JavaScript values are tagged records; JavaScript strings are sequences  *)
(* of one-character strings, so that trimming, case folding, splitting and *)
(* substring tests are computed the way the code computes them.            *)
(***************************************************************************)
EXTENDS Integers, Sequences, FiniteSets, TLC

VARIABLES
    \* validator.js: removeDuplicates / meetsQualityStandards
    vPc,          \* "input" | "once" | "twice" | "gated"
    vAgents,      \* the list handed to removeDuplicates
    vUnique,      \* removeDuplicates(vAgents)
    vUnique2,     \* removeDuplicates(vUnique)
    vRecord,      \* the record handed to meetsQualityStandards
    vGate,        \* its outcome: "none" | "accept" | "reject"
    vScore,       \* what calculateConfidence returned for the record
    \* self-consistency.js: extractWithSelfConsistency
    scPc,         \* "idle" | "called" | "sampled" | "merged"
    scAnswers,    \* how the model answers each sample of the call
    scResults,    \* the samples extractMultipleSamples returned
    scOut,        \* what extractWithSelfConsistency returned (or that it threw)
    \* genre-registry.js: findBestMatch / classifyGenresWithEmbeddings
    gPc,          \* "idle" | "match" | "classify" | "done"
    gRegistry,    \* registry.genres
    gTarget,      \* index of the entry X when the raw term is "the X", else 0
    gRaw,         \* rawGenre, or genresRaw
    gEmbed,       \* what getEmbedding answers for each raw term
    gOut,         \* the result
    \* the site being crawled and the answers of the services asked about it
    world,        \* page: what each URL serves; sitemap, links: what is found
    \* crawler.js: scrapeParallel
    spPc,         \* "idle" | "called" | "running" | "returned"
    spUrls,       \* urls
    spConcurrency,
    spQueue,      \* queue
    spResults,    \* results
    spWorkers,    \* each launched worker: suspended on a fetch, or finished
    spLog,        \* every queue.shift(): which worker took which URL
    \* crawler.js: crawlForAgents
    cPc,          \* the await crawlForAgents is suspended on, or how it ended
    cUrl,         \* url
    cSingle,      \* singleUrlMode
    cUniqueLinks, \* uniqueLinks of filterAgentLinks
    cAgentLinks,  \* agentLinks
    cCountry,     \* country
    cSuccessful,  \* successfulPages
    cTriage,      \* how the triage call was answered
    cPages,       \* pagesToExtract
    cIdx,         \* how many of them the extraction loop has been through
    cAgents,      \* agents
    cKnowledge,   \* agencyKnowledge
    cOut,         \* what crawlForAgents returned, or that it threw
    \* ollama.js: extractWithOllama
    oPc,          \* "idle" | "called" | "returned"
    oResponse,    \* how the model and the classifiers answer the call
    oKnown,       \* knownFields
    oOut,         \* the record extractWithOllama returned
    \* the genre registry on disk, its cached view and the calls in flight
    rDisk,        \* the registry file: Null, or registry.genres
    rCache,       \* _cachedCategories
    rTasks,       \* each request or classification call: where it is suspended
    \* POST /api/save
    saPc,         \* "idle" | "called" | "saving" | "responded"
    saBody,       \* req.body.agents
    saSubmitted,  \* the records handed to saveToGoogleSheets so far
    saSaved,      \* saved
    saFailed,     \* failed
    saOut,        \* the response
    \* POST /api/crawl
    apPc,         \* "idle" | "called" | "crawling" | "responded"
    apBody,       \* req.body: urls and mode
    apIdx,        \* how many of the URLs crawlForAgents was called on
    apAll,        \* allAgents
    apOut         \* the response

vVars == <<vPc, vAgents, vUnique, vUnique2, vRecord, vGate, vScore>>
scVars == <<scPc, scAnswers, scResults, scOut>>
gVars == <<gPc, gRegistry, gTarget, gRaw, gEmbed, gOut>>

spVars == <<spPc, spUrls, spConcurrency, spQueue, spResults, spWorkers, spLog>>
cVars == <<cPc, cUrl, cSingle, cUniqueLinks, cAgentLinks, cCountry, cSuccessful,
           cTriage, cPages, cIdx, cAgents, cKnowledge, cOut>>

oVars == <<oPc, oResponse, oKnown, oOut>>

rVars == <<rDisk, rCache, rTasks>>

saVars == <<saPc, saBody, saSubmitted, saSaved, saFailed, saOut>>

apVars == <<apPc, apBody, apIdx, apAll, apOut>>

vars == <<vVars, scVars, gVars, world, spVars, cVars, oVars, rVars, saVars, apVars>>

-----------------------------------------------------------------------------
(* JavaScript values *)

Undefined == [t |-> "undefined"]
Null      == [t |-> "null"]
Str(s)    == [t |-> "string", v |-> s]
Bool(b)   == [t |-> "boolean", v |-> b]
Num(n)    == [t |-> "number", v |-> n]
Arr(a)    == [t |-> "array", v |-> a]
\* the result of 0/0
NaN       == [t |-> "number", nan |-> TRUE]

IsStr(x)  == x.t = "string"
IsBool(x) == x.t = "boolean"
IsArr(x)  == x.t = "array"
IsNaN(x)  == x.t = "number" /\ "nan" \in DOMAIN x

\* ToBoolean: what `!x`, `x || y`, `x && y` and `if (x)` test
Truthy(x) ==
    CASE x.t = "undefined" -> FALSE
      [] x.t = "null"      -> FALSE
      [] x.t = "string"    -> x.v # <<>>
      [] x.t = "boolean"   -> x.v
      [] x.t = "number"    -> IF IsNaN(x) THEN FALSE ELSE x.v # 0
      [] OTHER             -> TRUE

\* x === y
StrictEquals(x, y) == x.t = y.t /\ x = y

\* x || y
OrElse(x, y) == IF Truthy(x) THEN x ELSE y

\* const name = value; ...: the rest, F, evaluated with the value bound
Let(value, F(_)) == F(value)

-----------------------------------------------------------------------------
(* JavaScript string primitives over sequences of characters *)

UpperChars == <<"A", "B", "C", "D", "E", "F", "G", "H", "I", "J", "K", "L", "M",
                "N", "O", "P", "Q", "R", "S", "T", "U", "V", "W", "X", "Y", "Z">>
LowerChars == <<"a", "b", "c", "d", "e", "f", "g", "h", "i", "j", "k", "l", "m",
                "n", "o", "p", "q", "r", "s", "t", "u", "v", "w", "x", "y", "z">>

ToLowerChar(c) ==
    IF \E i \in DOMAIN UpperChars : UpperChars[i] = c
    THEN LowerChars[CHOOSE i \in DOMAIN UpperChars : UpperChars[i] = c]
    ELSE c

\* String.prototype.toLowerCase
ToLowerCase(s) == [i \in DOMAIN s |-> ToLowerChar(s[i])]

\* \s
IsSpace(c) == c \in {" ", "\t", "\n"}

\* \w
IsWordChar(c) ==
    \/ \E i \in DOMAIN UpperChars : UpperChars[i] = c
    \/ \E i \in DOMAIN LowerChars : LowerChars[i] = c
    \/ c \in {"0", "1", "2", "3", "4", "5", "6", "7", "8", "9", "_"}

RECURSIVE TrimStart(_)
TrimStart(s) ==
    IF s # <<>> /\ IsSpace(Head(s)) THEN TrimStart(Tail(s)) ELSE s

RECURSIVE TrimEnd(_)
TrimEnd(s) ==
    IF s # <<>> /\ IsSpace(s[Len(s)])
    THEN TrimEnd(SubSeq(s, 1, Len(s) - 1)) ELSE s

\* String.prototype.trim
Trim(s) == TrimEnd(TrimStart(s))

\* s.replace(/\s+/g, ' ')
RECURSIVE CollapseSpaces(_)
CollapseSpaces(s) ==
    IF s = <<>> THEN <<>>
    ELSE IF IsSpace(Head(s))
         THEN <<" ">> \o CollapseSpaces(TrimStart(s))
         ELSE <<Head(s)>> \o CollapseSpaces(Tail(s))

\* s.startsWith(p)
StartsWith(s, p) == Len(p) <= Len(s) /\ SubSeq(s, 1, Len(p)) = p

\* s.includes(p)
Includes(s, p) ==
    \E i \in 1..(Len(s) - Len(p) + 1) : SubSeq(s, i, i + Len(p) - 1) = p

\* s.split(c) for a one-character separator
RECURSIVE SplitAcc(_, _, _)
SplitAcc(s, c, cur) ==
    IF s = <<>> THEN <<cur>>
    ELSE IF Head(s) = c THEN <<cur>> \o SplitAcc(Tail(s), c, <<>>)
         ELSE SplitAcc(Tail(s), c, Append(cur, Head(s)))

Split(s, c) == SplitAcc(s, c, <<>>)

-----------------------------------------------------------------------------
(* validator.js *)

\* isValidEmail's /^[^\s@]+@[^\s@]+\.[^\s@]+$/ : no whitespace, exactly one
\* "@" with something before it, and after it a "." with something on both
\* sides
EmailRegexTest(s) ==
    /\ \A i \in DOMAIN s : ~IsSpace(s[i])
    /\ Cardinality({i \in DOMAIN s : s[i] = "@"}) = 1
    /\ LET at == CHOOSE i \in DOMAIN s : s[i] = "@"
       IN  /\ at > 1
           /\ \E d \in (at + 2)..(Len(s) - 1) : s[d] = "."

genericPrefixes ==
    { <<"i", "n", "f", "o", "@">>,
      <<"k", "o", "n", "t", "a", "k", "t", "@">>,
      <<"c", "o", "n", "t", "a", "c", "t", "@">>,
      <<"o", "f", "f", "i", "c", "e", "@">>,
      <<"a", "d", "m", "i", "n", "@">>,
      <<"h", "e", "l", "l", "o", "@">>,
      <<"m", "a", "i", "l", "@">>,
      <<"s", "u", "p", "p", "o", "r", "t", "@">>,
      <<"s", "e", "r", "v", "i", "c", "e", "@">> }

isValidEmail(email) ==
    IF ~Truthy(email) \/ ~IsStr(email) THEN FALSE
    ELSE IF ~EmailRegexTest(email.v) THEN FALSE
    ELSE ~\E prefix \in genericPrefixes :
             StartsWith(ToLowerCase(email.v), prefix)

\* normalizeName: trim, "Last, First" -> "First Last", collapse whitespace
normalizeName(name) ==
    IF ~Truthy(name) \/ ~IsStr(name) THEN <<>>
    ELSE LET trimmed == Trim(name.v)
             parts   == Split(trimmed, ",")
             swapped == IF Includes(trimmed, <<",">>) /\ Len(parts) = 2
                        THEN Trim(parts[2]) \o <<" ">> \o Trim(parts[1])
                        ELSE trimmed
         IN  CollapseSpaces(swapped)

\* (x || '') for a field that is a string when present
StrOrEmpty(x) == OrElse(x, Str(<<>>)).v

isDuplicate(agent1, agent2) ==
    LET name1   == ToLowerCase(normalizeName(OrElse(agent1.agent_name, Str(<<>>))))
        name2   == ToLowerCase(normalizeName(OrElse(agent2.agent_name, Str(<<>>))))
        email1  == Trim(ToLowerCase(StrOrEmpty(agent1.email)))
        email2  == Trim(ToLowerCase(StrOrEmpty(agent2.email)))
        agency1 == ToLowerCase(StrOrEmpty(agent1.agency_name))
        agency2 == ToLowerCase(StrOrEmpty(agent2.agency_name))
    IN  \/ name1 # <<>> /\ name2 # <<>> /\ name1 = name2
        \/ email1 # <<>> /\ email2 # <<>> /\ email1 = email2
        \/ /\ name1 # <<>> /\ name2 # <<>>
           /\ Includes(name1, name2) \/ Includes(name2, name1)
           /\ agency1 # <<>> /\ agency2 # <<>> /\ agency1 = agency2

\* the loop of removeDuplicates over agents[i..], `unique` being the records
\* kept so far
RECURSIVE removeDuplicatesFrom(_, _, _)
removeDuplicatesFrom(agents, i, unique) ==
    IF i > Len(agents) THEN unique
    ELSE LET agent  == agents[i]
             isDupe == \E k \in DOMAIN unique : isDuplicate(unique[k], agent)
         IN  removeDuplicatesFrom(agents, i + 1,
                 IF ~isDupe THEN Append(unique, agent) ELSE unique)

\* a deduplication that compares a record with the record before it in the
\* input only
RECURSIVE removeDuplicatesAdjacent(_)
removeDuplicatesAdjacent(agents) ==
    IF Len(agents) <= 1 THEN agents
    ELSE LET front == SubSeq(agents, 1, Len(agents) - 1)
             last  == agents[Len(agents)]
         IN  IF isDuplicate(agents[Len(agents) - 1], last)
             THEN removeDuplicatesAdjacent(front)
             ELSE Append(removeDuplicatesAdjacent(front), last)

\* a deduplication in which the record seen last wins
removeDuplicatesLastWins(agents) ==
    LET Reversed(seq) == [i \in DOMAIN seq |-> seq[Len(seq) + 1 - i]]
    IN  Reversed(removeDuplicatesFrom(Reversed(agents), 1, <<>>))

removeDuplicates(agents) == removeDuplicatesFrom(agents, 1, <<>>)

\* a < b on JavaScript numbers: false when either side is undefined or NaN
NumLess(a, b) ==
    /\ a.t = "number" /\ b.t = "number"
    /\ ~IsNaN(a) /\ ~IsNaN(b)
    /\ a.v < b.v

sUnknown == <<"U", "n", "k", "n", "o", "w", "n">>
sError   == <<"E", "r", "r", "o", "r">>
sTimeout == <<"t", "i", "m", "e", "o", "u", "t">>

\* a quality gate that forgets the 'Error' sentinel
meetsQualityStandardsNoError(agent) ==
    IF ~Truthy(agent.agent_name) \/ agent.agent_name = Str(sUnknown)
    THEN FALSE
    ELSE IF ~Truthy(agent.email) /\ ~Truthy(agent.website)
            /\ ~Truthy(agent.agency_name)
    THEN FALSE
    ELSE ~NumLess(agent.confidence_score, Num(20))

meetsQualityStandards(agent) ==
    IF \/ ~Truthy(agent.agent_name)
       \/ agent.agent_name = Str(sUnknown)
       \/ agent.agent_name = Str(sError)
    THEN FALSE
    ELSE IF ~Truthy(agent.email) /\ ~Truthy(agent.website)
            /\ ~Truthy(agent.agency_name)
    THEN FALSE
    ELSE IF NumLess(agent.confidence_score, Num(20))
    THEN FALSE
    ELSE TRUE

-----------------------------------------------------------------------------
(* self-consistency.js *)

\* obj[field]: undefined for a key the object does not have
Get(obj, field) == IF field \in DOMAIN obj THEN obj[field] ELSE Undefined

Digit(d) == <<"0", "1", "2", "3", "4", "5", "6", "7", "8", "9">>[d + 1]

RECURSIVE NatToString(_)
NatToString(n) ==
    IF n < 10 THEN <<Digit(n)>>
    ELSE NatToString(n \div 10) \o <<Digit(n % 10)>>

RECURSIVE JoinStrings(_, _)
JoinStrings(strs, sep) ==
    IF strs = <<>> THEN <<>>
    ELSE IF Len(strs) = 1 THEN strs[1]
    ELSE strs[1] \o sep \o JoinStrings(Tail(strs), sep)

\* String(val)
RECURSIVE JsString(_)
JsString(x) ==
    CASE x.t = "string"    -> x.v
      [] x.t = "boolean"   -> IF x.v THEN <<"t", "r", "u", "e">>
                              ELSE <<"f", "a", "l", "s", "e">>
      [] x.t = "null"      -> <<"n", "u", "l", "l">>
      [] x.t = "undefined" -> <<"u", "n", "d", "e", "f", "i", "n", "e", "d">>
      [] x.t = "number"    -> IF IsNaN(x) THEN <<"N", "a", "N">>
                              ELSE NatToString(x.v)
      [] x.t = "array"     ->
            JoinStrings([i \in DOMAIN x.v |->
                            IF x.v[i].t \in {"null", "undefined"} THEN <<>>
                            ELSE JsString(x.v[i])], <<",">>)

\* the value calculateFieldConsistency compares: strings lower-cased and
\* trimmed, booleans as 'true'/'false', anything else as it is
NormalizeForComparison(value) ==
    CASE value.t = "string"  -> Str(Trim(ToLowerCase(value.v)))
      [] value.t = "boolean" -> Str(JsString(value))
      [] OTHER               -> value

IsDigit(c) == c \in {"0", "1", "2", "3", "4", "5", "6", "7", "8", "9"}

\* a property key that is a canonical array index ("0", "7", "10"): these
\* are enumerated first, in ascending numeric order
IsIndexKey(key) ==
    /\ key # <<>>
    /\ \A i \in DOMAIN key : IsDigit(key[i])
    /\ Len(key) > 1 => key[1] # "0"

DigitValue(c) == CHOOSE d \in 0..9 : Digit(d) = c

RECURSIVE StringToNat(_)
StringToNat(s) ==
    IF s = <<>> THEN 0
    ELSE 10 * StringToNat(SubSeq(s, 1, Len(s) - 1)) + DigitValue(s[Len(s)])

\* the distinct elements of a sequence, in order of first occurrence
RECURSIVE Distinct(_)
Distinct(s) ==
    IF s = <<>> THEN <<>>
    ELSE LET front == Distinct(SubSeq(s, 1, Len(s) - 1))
             last  == s[Len(s)]
         IN  IF \E i \in DOMAIN front : front[i] = last THEN front
             ELSE Append(front, last)

RECURSIVE SortIndexKeys(_)
SortIndexKeys(keys) ==
    IF keys = {} THEN <<>>
    ELSE LET least == CHOOSE k \in keys :
                          \A o \in keys : StringToNat(k) <= StringToNat(o)
         IN  <<least>> \o SortIndexKeys(keys \ {least})

\* Object.entries(counts): index keys ascending, then the others in the order
\* in which they were first assigned
CountsKeyOrder(keys) ==
    LET first == Distinct(keys)
    IN  SortIndexKeys({first[i] : i \in {j \in DOMAIN first : IsIndexKey(first[j])}})
        \o SelectSeq(first, LAMBDA k : ~IsIndexKey(k))

Occurrences(keys, key) == Cardinality({i \in DOMAIN keys : keys[i] = key})

sNull      == <<"n", "u", "l", "l">>
sUndefined == <<"u", "n", "d", "e", "f", "i", "n", "e", "d">>
sTrue      == <<"t", "r", "u", "e">>
sFalse     == <<"f", "a", "l", "s", "e">>

\* calculateFieldConsistency: score is count / total
calculateFieldConsistency(results, field) ==
    Let([i \in DOMAIN results |->
            JsString(NormalizeForComparison(Get(results[i], field)))],
        LAMBDA keys :
    Let(CountsKeyOrder(keys), LAMBDA order :
    Let(IF order = <<>> THEN 0
        ELSE CHOOSE c \in 1..Len(keys) :
               /\ \E i \in DOMAIN order : Occurrences(keys, order[i]) = c
               /\ \A i \in DOMAIN order : Occurrences(keys, order[i]) <= c,
        LAMBDA maxCount :
    \* `count > maxCount`: the first key, in enumeration order, that reaches
    \* the highest count
    Let(IF order = <<>> THEN Null
        ELSE Str(order[CHOOSE i \in DOMAIN order :
               /\ Occurrences(keys, order[i]) = maxCount
               /\ \A j \in 1..(i - 1) : Occurrences(keys, order[j]) < maxCount]),
        LAMBDA winner :
    [ mostCommon |-> IF winner = Str(sNull) \/ winner = Str(sUndefined)
                     THEN Null ELSE winner,
      count      |-> maxCount,
      total      |-> Len(results) ]))))

metadataFields == {"source_url", "timestamp", "error"}
criticalFields == {"agent_name", "email", "agency_name"}

RECURSIVE SumCounts(_, _)
SumCounts(analysis, fields) ==
    IF fields = {} THEN 0
    ELSE LET f == CHOOSE f \in fields : TRUE
         IN  analysis[f].count + SumCounts(analysis, fields \ {f})

\* count / total < 0.67
BelowCriticalThreshold(c) == 100 * c.count < 67 * c.total

\* avgScore < 0.7, avgScore being num / den and NaN when den = 0
AverageBelowReviewThreshold(avg) == avg.den # 0 /\ 10 * avg.num < 7 * avg.den

\* calculateOverallConsistency.  The per-field scores count/total share the
\* denominator total = results.length, so their mean over the analysed
\* fields is (sum of counts) / (total * number of fields): 0/0, NaN, when no
\* field is analysed.
calculateOverallConsistency(results) ==
    IF Len(results) = 0
    THEN [ score |-> [num |-> 0, den |-> 1], fieldAnalysis |-> <<>>,
           criticalFieldsInconsistent |-> {}, needsReview |-> TRUE ]
    ELSE Let(DOMAIN results[1] \ metadataFields, LAMBDA analysed :
         Let([f \in analysed |-> calculateFieldConsistency(results, f)],
             LAMBDA fieldAnalysis :
         Let({f \in analysed \cap criticalFields :
                 BelowCriticalThreshold(fieldAnalysis[f])},
             LAMBDA inconsistent :
         Let([ num |-> SumCounts(fieldAnalysis, analysed),
               den |-> Len(results) * Cardinality(analysed) ],
             LAMBDA avgScore :
         [ score |-> avgScore,
           fieldAnalysis |-> fieldAnalysis,
           criticalFieldsInconsistent |-> inconsistent,
           needsReview |-> \/ AverageBelowReviewThreshold(avgScore)
                           \/ inconsistent # {} ]))))

restoredFields == {"agent_name", "agency_name", "email", "country"}

\* the value mergeResultsByVoting stores for one field
MergedValue(results, field) ==
    Let(calculateFieldConsistency(results, field).mostCommon, LAMBDA mostCommon :
    Let(IF mostCommon = Str(sTrue) THEN Bool(TRUE)
        ELSE IF mostCommon = Str(sFalse) THEN Bool(FALSE)
        ELSE IF mostCommon = Str(sNull) THEN Null
        ELSE mostCommon,
        LAMBDA value :
    LET matches(r) == /\ IsStr(Get(r, field))
                      /\ StrictEquals(Str(Trim(ToLowerCase(Get(r, field).v))), value)
    IN  IF field \in restoredFields /\ \E i \in DOMAIN results : matches(results[i])
        THEN Let(results[CHOOSE i \in DOMAIN results :
                     /\ matches(results[i])
                     /\ \A j \in 1..(i - 1) : ~matches(results[j])],
                 LAMBDA original :
                 IF Truthy(Get(original, field)) THEN original[field] ELSE value)
        ELSE value))

mergeResultsByVoting(results) ==
    IF Len(results) = 0 THEN Null
    ELSE IF Len(results) = 1 THEN results[1]
    ELSE [f \in DOMAIN results[1] |-> MergedValue(results, f)]

\* Math.round(100 * num / den): NaN for 0/0
RoundPercent(q) ==
    IF q.den = 0 THEN NaN
    ELSE Num((200 * q.num + q.den) \div (2 * q.den))

\* extractWithSelfConsistency after extractMultipleSamples returned `results`
extractWithSelfConsistency(results) ==
    IF Len(results) = 0 THEN [threw |-> TRUE]
    ELSE Let(calculateOverallConsistency(results), LAMBDA consistency :
         [ threw  |-> FALSE,
           merged |-> mergeResultsByVoting(results),
           self_consistency |->
             [ score       |-> RoundPercent(consistency.score),
               samples     |-> Len(results),
               needsReview |-> consistency.needsReview,
               criticalFieldsInconsistent |->
                   consistency.criticalFieldsInconsistent,
               fieldScores |->
                   [f \in DOMAIN consistency.fieldAnalysis |->
                       [ score |-> RoundPercent(
                             [num |-> consistency.fieldAnalysis[f].count,
                              den |-> consistency.fieldAnalysis[f].total]),
                         count |-> consistency.fieldAnalysis[f].count,
                         total |-> consistency.fieldAnalysis[f].total ]] ] ])

-----------------------------------------------------------------------------
(* genre-registry.js *)

\* MATCH_THRESHOLD, in hundredths
MATCH_THRESHOLD == 82

articles == { <<"t", "h", "e">>, <<"a">>, <<"a", "n">> }

\* the longest run of word characters at the head of s
RECURSIVE WordPrefix(_)
WordPrefix(s) ==
    IF s # <<>> /\ IsWordChar(Head(s))
    THEN <<Head(s)>> \o WordPrefix(Tail(s)) ELSE <<>>

\* s.replace(/\b(the|a|an)\b/g, ''): every maximal run of word characters
\* that is one of the three words is deleted
RECURSIVE StripArticles(_)
StripArticles(s) ==
    IF s = <<>> THEN <<>>
    ELSE IF IsWordChar(Head(s))
         THEN LET word == WordPrefix(s)
                  rest == SubSeq(s, Len(word) + 1, Len(s))
              IN  (IF word \in articles THEN <<>> ELSE word) \o StripArticles(rest)
         ELSE <<Head(s)>> \o StripArticles(Tail(s))

\* a normalisation that keeps the articles
normalizeKeepArticles(text) == Trim(CollapseSpaces(Trim(ToLowerCase(text))))

normalize(text) ==
    Trim(CollapseSpaces(StripArticles(Trim(ToLowerCase(text)))))

\* Math.sqrt on a perfect square
Sqrt(n) == CHOOSE r \in 0..n : r * r = n

Dot(a, b) == a[1] * b[1] + a[2] * b[2]

\* cosineSimilarity, as the fraction num / den; 0 for a zero vector
cosineSimilarity(a, b) ==
    LET mag == Sqrt(Dot(a, a)) * Sqrt(Dot(b, b))
    IN  IF mag = 0 THEN [num |-> 0, den |-> 1]
        ELSE [num |-> Dot(a, b), den |-> mag]

\* p > q for fractions with positive denominators
FracGreater(p, q) == p.num * q.den > q.num * p.den

\* Math.round(q * 100), q >= 0
RoundHundredths(q) == (200 * q.num + q.den) \div (2 * q.den)

NoEmbedding == <<>>

\* the embedding tier of findBestMatch: scan of registry.genres[i..] with
\* the best entry so far
RECURSIVE BestByEmbedding(_, _, _, _)
BestByEmbedding(embedding, genres, i, best) ==
    IF i > Len(genres) THEN best
    ELSE IF genres[i].embedding = NoEmbedding
         THEN BestByEmbedding(embedding, genres, i + 1, best)
         ELSE LET sim == cosineSimilarity(embedding, genres[i].embedding)
              IN  BestByEmbedding(embedding, genres, i + 1,
                      IF FracGreater(sim, best.similarity)
                      THEN [match |-> Str(genres[i].name), similarity |-> sim]
                      ELSE best)

FirstIndex(genres, P(_)) ==
    CHOOSE i \in DOMAIN genres : P(genres[i]) /\ \A j \in 1..(i - 1) : ~P(genres[j])

\* findBestMatch(rawGenre, registry); embedded is what getEmbedding(rawGenre)
\* yields, a vector or NoEmbedding when the call fails.  similarity is in
\* hundredths.
findBestMatch(rawGenre, genres, embedded) ==
    LET normalized == normalize(rawGenre)
        exact(g)   == \/ normalize(g.name) = normalized
                      \/ \E a \in DOMAIN g.aliases : normalize(g.aliases[a]) = normalized
        contains(g) == \/ Includes(normalized, normalize(g.name))
                       \/ Includes(normalize(g.name), normalized)
    IN  IF normalized = <<>>
        THEN [match |-> Null, bestMatch |-> Undefined, similarity |-> 0]
        ELSE IF \E i \in DOMAIN genres : exact(genres[i])
        THEN [match |-> Str(genres[FirstIndex(genres, exact)].name),
              bestMatch |-> Undefined, similarity |-> 100]
        ELSE IF \E i \in DOMAIN genres : contains(genres[i])
        THEN [match |-> Str(genres[FirstIndex(genres, contains)].name),
              bestMatch |-> Undefined, similarity |-> 95]
        ELSE IF embedded = NoEmbedding
        THEN [match |-> Null, bestMatch |-> Undefined, similarity |-> 0]
        ELSE LET best == BestByEmbedding(embedded, genres, 1,
                             [match |-> Null, similarity |-> [num |-> 0, den |-> 1]])
             IN  [match |-> IF 100 * best.similarity.num
                                  >= MATCH_THRESHOLD * best.similarity.den
                            THEN best.match ELSE Null,
                  bestMatch |-> best.match,
                  similarity |-> RoundHundredths(best.similarity)]

IsSeparator(c) == c \in {",", ";"}

RECURSIVE DropSeparators(_)
DropSeparators(s) ==
    IF s # <<>> /\ IsSeparator(Head(s)) THEN DropSeparators(Tail(s)) ELSE s

\* genresRaw.split(/[,;]+/)
RECURSIVE SplitOnSeparators(_, _)
SplitOnSeparators(s, cur) ==
    IF s = <<>> THEN <<cur>>
    ELSE IF IsSeparator(Head(s))
         THEN <<cur>> \o SplitOnSeparators(DropSeparators(s), <<>>)
         ELSE SplitOnSeparators(Tail(s), Append(cur, Head(s)))

skipTerms ==
    { <<"f", "i", "c", "t", "i", "o", "n">>,
      <<"n", "o", "n", "f", "i", "c", "t", "i", "o", "n">>,
      <<"n", "o", "n", "-", "f", "i", "c", "t", "i", "o", "n">>,
      <<"b", "o", "o", "k", "s">>,
      <<"n", "o", "v", "e", "l", "s">>,
      <<"l", "i", "t", "e", "r", "a", "t", "u", "r", "e">> }

\* the cap on the unmatched list
UNMATCHED_CAP == 5

\* unmatched.sort((a, b) => a.similarity - b.similarity): a stable sort,
\* ascending by similarity
RECURSIVE InsertAscending(_, _)
InsertAscending(sorted, x) ==
    IF sorted = <<>> THEN <<x>>
    ELSE IF sorted[Len(sorted)].similarity <= x.similarity
         THEN Append(sorted, x)
         ELSE Append(InsertAscending(SubSeq(sorted, 1, Len(sorted) - 1), x),
                     sorted[Len(sorted)])

RECURSIVE SortAscending(_)
SortAscending(s) ==
    IF s = <<>> THEN <<>>
    ELSE InsertAscending(SortAscending(SubSeq(s, 1, Len(s) - 1)), s[Len(s)])

\* getEmbedding(raw): the call fails for a text the oracle has no answer for
EmbeddingOf(embed, raw) ==
    IF raw \in DOMAIN embed THEN embed[raw] ELSE NoEmbedding

\* the loop of classifyGenresWithEmbeddings over rawGenres[i..]; acc holds
\* genres (whose elements are the `seen` set) and unmatched
RECURSIVE ClassifyLoop(_, _, _, _, _)
ClassifyLoop(rawGenres, i, genres, embed, acc) ==
    IF i > Len(rawGenres) THEN acc
    ELSE LET raw == rawGenres[i]
         IN  IF normalize(raw) \in skipTerms
             THEN ClassifyLoop(rawGenres, i + 1, genres, embed, acc)
             ELSE LET result == findBestMatch(raw, genres, EmbeddingOf(embed, raw))
                      seen   == \E k \in DOMAIN acc.genres : acc.genres[k] = result.match
                  IN  ClassifyLoop(rawGenres, i + 1, genres, embed,
                        IF Truthy(result.match) /\ ~seen
                        THEN [acc EXCEPT !.genres = Append(@, result.match)]
                        ELSE IF ~Truthy(result.match) /\ Truthy(result.bestMatch)
                        THEN [acc EXCEPT !.unmatched = Append(@,
                                 [raw |-> raw, bestMatch |-> result.bestMatch,
                                  similarity |-> result.similarity])]
                        ELSE acc)

\* classifyGenresWithEmbeddings before its cap: the accepted genres and
\* every unmatched term with a best candidate; embed holds what
\* getEmbedding yields for each raw term
ClassifyAll(genresRaw, genres, embed) ==
    LET parts     == SplitOnSeparators(genresRaw, <<>>)
        trimmed   == [i \in DOMAIN parts |-> Trim(parts[i])]
        rawGenres == SelectSeq(trimmed, LAMBDA g : Len(g) > 1)
    IN  ClassifyLoop(rawGenres, 1, genres, embed,
                     [genres |-> <<>>, unmatched |-> <<>>])

classifyGenresWithEmbeddings(genresRaw, genres, embed) ==
    LET acc == ClassifyAll(genresRaw, genres, embed)
    IN  IF Len(acc.unmatched) > UNMATCHED_CAP
        THEN [acc EXCEPT !.unmatched =
                 SubSeq(SortAscending(acc.unmatched), 1, UNMATCHED_CAP)]
        ELSE acc

-----------------------------------------------------------------------------
(* crawler.js, with what it uses of scraper.js, ollama.js and impressum.js *)

MAX_AGENT_LINKS == 25

SCRAPE_CONCURRENCY == 5

Min(a, b) == IF a < b THEN a ELSE b

EndsWith(s, p) ==
    Len(p) <= Len(s) /\ SubSeq(s, Len(s) - Len(p) + 1, Len(s)) = p

sHttp  == <<"h", "t", "t", "p", ":", "/", "/">>
sHttps == <<"h", "t", "t", "p", "s", ":", "/", "/">>

\* the url handed to crawlForAgents, with 'https://' put in front of it when
\* it names no scheme
NormalizeUrl(url) ==
    IF ~StartsWith(url, sHttp) /\ ~StartsWith(url, sHttps) THEN sHttps \o url
    ELSE url

assetExtensions ==
    { <<"p", "d", "f">>,
      <<"j", "p", "g">>,
      <<"p", "n", "g">>,
      <<"g", "i", "f">>,
      <<"d", "o", "c">>,
      <<"d", "o", "c", "x">>,
      <<"x", "m", "l">>,
      <<"t", "x", "t">>,
      <<"c", "s", "s">>,
      <<"j", "s">>,
      <<"j", "s", "o", "n">>,
      <<"s", "v", "g">>,
      <<"i", "c", "o">> }

boilerplatePaths ==
    { <<"i", "m", "p", "r", "e", "s", "s", "u", "m">>,
      <<"d", "a", "t", "e", "n", "s", "c", "h", "u", "t", "z">>,
      <<"p", "r", "i", "v", "a", "c", "y">>,
      <<"l", "e", "g", "a", "l">>,
      <<"a", "g", "b">>,
      <<"t", "e", "r", "m", "s">>,
      <<"c", "o", "o", "k", "i", "e">>,
      <<"d", "i", "s", "c", "l", "a", "i", "m", "e", "r">>,
      <<"h", "a", "f", "t", "u", "n", "g">> }

\* filterAgentLinks up to its await: the links that match neither
\* /\.(pdf|...|ico)$/i nor /\/(impressum|...|haftung)/i, without repetitions
uniqueLinks(links) ==
    LET Keep(link) ==
            /\ ~\E e \in assetExtensions :
                   EndsWith(ToLowerCase(link), <<".">> \o e)
            /\ ~\E w \in boilerplatePaths :
                   Includes(ToLowerCase(link), <<"/">> \o w)
    IN  Distinct(SelectSeq(links, Keep))

\* rankings.sort((a, b) => b.score - a.score): stable, highest score first
RECURSIVE SortByScore(_)
SortByScore(rankings) ==
    IF rankings = <<>> THEN <<>>
    ELSE LET n      == Len(rankings)
             last   == rankings[n]
             sorted == SortByScore(SubSeq(rankings, 1, n - 1))
             k      == Cardinality({i \in DOMAIN sorted :
                                        sorted[i].score >= last.score})
         IN  SubSeq(sorted, 1, k) \o <<last>> \o SubSeq(sorted, k + 1, n - 1)

\* prioritizeUrlsWithLLM, given what the model answered: `parsed` is false
\* when the call failed or its text held no JSON array
prioritizeUrlsWithLLM(urls, answer) ==
    IF Len(urls) <= 3 THEN urls
    ELSE IF ~answer.parsed THEN urls
    ELSE LET rankings        == SortByScore(answer.rankings)
             prioritizedUrls == [i \in DOMAIN rankings |-> rankings[i].url]
             Missing(url)    == ~\E i \in DOMAIN prioritizedUrls :
                                     prioritizedUrls[i] = url
         IN  prioritizedUrls \o SelectSeq(urls, Missing)

\* prioritized.slice(0, MAX_AGENT_LINKS)
filterAgentLinks(prioritized) ==
    SubSeq(prioritized, 1, Min(Len(prioritized), MAX_AGENT_LINKS))

\* the object crawlForAgents returns from its safety check
TooManyLinksWarning(agentLinks) ==
    [ warning      |-> TRUE,
      tooManyLinks |-> TRUE,
      foundLinks   |-> Len(agentLinks),
      limit        |-> MAX_AGENT_LINKS,
      estimatedTime |-> (Len(agentLinks) * 3 + 30) \div 60,
      sampleUrls   |-> SubSeq(agentLinks, 1, Min(Len(agentLinks), 10)) ]

\* uniqueUrls: the start URL, then the agent links other than it, without
\* repetitions
uniqueUrls(url, agentLinks) ==
    LET Other(l) == l # url
    IN  Distinct(<<url>> \o SelectSeq(agentLinks, Other))

\* the entry a worker of scrapeParallel pushes when scrapeUrl settled: the
\* page on success, the error message on failure
ResultEntry(url, page) ==
    IF page.ok
    THEN [url |-> url, content |-> [textLen |-> page.textLen], error |-> Null]
    ELSE [url |-> url, content |-> Null, error |-> Str(sTimeout)]

\* a worker whose catch block records nothing
PushResultSuccessOnly(results, url, page) ==
    IF page.ok THEN Append(results, ResultEntry(url, page)) ELSE results

\* results.push(...), in the try block or in the catch block
PushResult(results, url, page) == Append(results, ResultEntry(url, page))

\* the head of worker()'s loop: while the queue is not empty, shift a URL and
\* suspend on scrapeUrl(url); otherwise the worker has finished
WorkerTakes(queue) ==
    IF queue # <<>> THEN [st |-> "fetching", url |-> Head(queue)]
    ELSE [st |-> "done", url |-> <<>>]

\* scrapedPages.filter(p => p.content && p.content.text.length > 200)
successfulPages(scrapedPages) ==
    LET Usable(p) == p.content # Null /\ p.content.textLen > 200
    IN  SelectSeq(scrapedPages, Usable)

\* triagePages on more than two snippets, given how the model answered:
\* indices, counted from 0, into the snippets
triagePages(snippets, answer, baseUrl) ==
    LET n          == Len(snippets)
        all        == [i \in 1..n |-> i - 1]
        Profile(i) == snippets[i + 1].url # baseUrl
    IN  CASE answer = "unparseable" -> all
          [] answer = "none"        -> <<>>
          [] answer = "profiles"    -> SelectSeq(all, Profile)
          [] answer = "reversed"    -> [i \in 1..n |-> n - i]
          [] answer = "junk"        -> <<-1, 0, 0, n>>

pagesToExtractFromOne(relevantIndices, successful) ==
    LET InRange(i) == i > 0 /\ i < Len(successful)
        kept       == SelectSeq(relevantIndices, InRange)
    IN  [k \in DOMAIN kept |-> successful[kept[k] + 1]]

\* relevantIndices.filter(i => i >= 0 && i < successfulPages.length)
\*                .map(i => successfulPages[i])
pagesToExtract(relevantIndices, successful) ==
    LET InRange(i) == i >= 0 /\ i < Len(successful)
        kept       == SelectSeq(relevantIndices, InRange)
    IN  [k \in DOMAIN kept |-> successful[kept[k] + 1]]

sNotFound == <<"N", "o", "t", " ", "f", "o", "u", "n", "d">>

\* hasConfidentAgencyInfo
hasConfidentAgencyInfo(knowledgeBase) ==
    /\ knowledgeBase # Null
    /\ Truthy(knowledgeBase.agency_name)
    /\ knowledgeBase.agency_name # Str(sUnknown)

sJsonObject == <<"{", "a", "}">>

\* result.match(/\{[\s\S]*\}/): from the first "{" to the last "}" after
\* it, or Null
JsonMatch(text) ==
    LET opens  == {i \in DOMAIN text : text[i] = "{"}
        first  == CHOOSE i \in opens : \A j \in opens : i <= j
        closes == {i \in DOMAIN text : text[i] = "}" /\ i > first}
        last   == CHOOSE i \in closes : \A j \in closes : i >= j
    IN  IF opens = {} THEN Null
        ELSE IF closes = {} THEN Null
        ELSE Str(SubSeq(text, first, last))

\* fixed.replace(/,\s*}/g, '}')
RECURSIVE DropTrailingCommas(_)
DropTrailingCommas(s) ==
    IF s = <<>> THEN <<>>
    ELSE IF /\ Head(s) = ","
            /\ TrimStart(Tail(s)) # <<>>
            /\ Head(TrimStart(Tail(s))) = "}"
         THEN DropTrailingCommas(TrimStart(Tail(s)))
         ELSE <<Head(s)>> \o DropTrailingCommas(Tail(s))

\* JSON.parse does not throw: of the texts asked about, {a} alone is JSON
JsonParses(json) == json = sJsonObject

\* an answer that never came: a phase of extractWithOllama threw
NoAnswer == [failed |-> TRUE]

\* extractAgentInfo, from the response of the model on: the object the text
\* holds, `data`, or a throw when the call failed, the text holds no
\* {...}, or what it holds is not JSON even after the rewrite
extractAgentInfo(response) ==
    IF ~response.arrived THEN NoAnswer
    ELSE Let(JsonMatch(response.text), LAMBDA jsonMatch :
         IF jsonMatch = Null THEN NoAnswer
         ELSE IF JsonParses(jsonMatch.v) THEN response.data
         ELSE IF JsonParses(DropTrailingCommas(jsonMatch.v)) THEN response.data
         ELSE NoAnswer)

\* the two phases of extractWithOllama: extractAgentInfo, then the three
\* classification calls, any of which may throw
AgentInfoAndClasses(response) ==
    Let(extractAgentInfo(response), LAMBDA agentInfo :
    IF agentInfo.failed \/ ~response.classified THEN NoAnswer ELSE agentInfo)

\* known fields that fill in only what the record does not have
mergeKnownFieldsIfUnset(result, knownFields) ==
    [key \in DOMAIN result \cup
             (IF knownFields # Null THEN DOMAIN knownFields ELSE {}) |->
        IF /\ knownFields # Null
           /\ key \in DOMAIN knownFields
           /\ ~Truthy(Get(result, key))
        THEN knownFields[key] ELSE Get(result, key)]

\* Object.entries(knownFields).forEach(...): a known value that is truthy
\* and not 'Unknown' is written over the field of the record
mergeKnownFields(result, knownFields) ==
    LET Known(key) ==
            /\ knownFields # Null
            /\ key \in DOMAIN knownFields
            /\ Truthy(knownFields[key])
            /\ ~StrictEquals(knownFields[key], Str(sUnknown))
    IN  [key \in DOMAIN result \cup
                 (IF knownFields # Null THEN DOMAIN knownFields ELSE {}) |->
            IF Known(key) THEN knownFields[key] ELSE Get(result, key)]

\* extractWithOllama: the record built from the answers of the two phases,
\* the known fields written over it; the error record when a phase threw.
\* A key the record does not have holds Undefined.
extractWithOllama(answer, knownFields) ==
    IF answer.failed
    THEN [ agent_name |-> Str(sError), agency_name |-> Str(sError),
           agency_name_evidence |-> Undefined, country |-> Str(sUnknown),
           website |-> Str(<<>>), email |-> Str(<<>>),
           is_open_to_submissions |-> Bool(FALSE), requires_bio |-> Bool(FALSE),
           requires_expose |-> Bool(FALSE), requires_manuscript |-> Bool(FALSE),
           audience |-> Arr(<<>>),
           accepted_genres_fiction |-> Undefined,
           accepted_genres_nonfiction |-> Undefined,
           hard_nos |-> Undefined, specific_keywords |-> Undefined,
           error |-> Str(sTimeout) ]
    ELSE LET result ==
                 [ agent_name |-> OrElse(answer.agent_name, Str(sUnknown)),
                   agency_name |-> OrElse(answer.agency_name, Str(sUnknown)),
                   agency_name_evidence |->
                       OrElse(answer.agency_name_evidence, Str(sNotFound)),
                   country |-> Undefined,
                   website |-> Undefined,
                   email |-> OrElse(answer.contact_email, Str(<<>>)),
                   is_open_to_submissions |->
                       OrElse(answer.is_open_to_submissions, Bool(FALSE)),
                   requires_bio |-> OrElse(answer.requires_bio, Bool(FALSE)),
                   requires_expose |->
                       OrElse(answer.requires_expose, Bool(FALSE)),
                   requires_manuscript |->
                       OrElse(answer.requires_manuscript, Bool(FALSE)),
                   audience |-> answer.audience,
                   accepted_genres_fiction |->
                       OrElse(answer.accepted_genres_fiction, Arr(<<>>)),
                   accepted_genres_nonfiction |->
                       OrElse(answer.accepted_genres_nonfiction, Arr(<<>>)),
                   hard_nos |-> answer.hard_nos,
                   specific_keywords |->
                       OrElse(answer.specific_keywords, Arr(<<>>)),
                   error |-> Undefined ]
         IN  mergeKnownFields(result, knownFields)

\* the keys an object has
Present(record) ==
    [key \in {k \in DOMAIN record : record[k] # Undefined} |-> record[key]]

\* extractMultipleSamples: one extractWithOllama per sample; a sample is
\* skipped when extractWithOllama throws, which it never does
extractMultipleSamples(answers, knownFields) ==
    [i \in DOMAIN answers |-> Present(extractWithOllama(answers[i], knownFields))]

\* isValidUrl: new URL(url) parses and the protocol is http: or https:
isValidUrl(url) ==
    IF ~Truthy(url) \/ ~IsStr(url) THEN FALSE
    ELSE LET lower == ToLowerCase(Trim(url.v))
             host  == IF StartsWith(lower, sHttps)
                      THEN SubSeq(lower, Len(sHttps) + 1, Len(lower))
                      ELSE SubSeq(lower, Len(sHttp) + 1, Len(lower))
         IN  /\ StartsWith(lower, sHttp) \/ StartsWith(lower, sHttps)
             /\ host # <<>>
             /\ \A i \in DOMAIN host : ~IsSpace(host[i])

\* keys whose name starts with 'genre_'
oldGenreKeys == {"genre_fantasy", "genre_crime"}

calculateConfidence(agent) ==
    LET name    == Get(agent, "agent_name")
        agency  == Get(agent, "agency_name")
        fiction == Get(agent, "accepted_genres_fiction")
        nonfict == Get(agent, "accepted_genres_nonfiction")
        hasOldGenre == \E field \in DOMAIN agent \cap oldGenreKeys :
                           StrictEquals(agent[field], Bool(TRUE))
        hasNewGenre == \/ IsArr(fiction) /\ Len(fiction.v) > 0
                       \/ IsArr(nonfict) /\ Len(nonfict.v) > 0
        score ==
            (IF Truthy(name) /\ name # Str(sUnknown) /\ name # Str(sError)
             THEN 30 ELSE 0)
          + (IF isValidEmail(Get(agent, "email")) THEN 20 ELSE 0)
          + (IF Truthy(agency) /\ agency # Str(sUnknown) THEN 20 ELSE 0)
          + (IF hasOldGenre \/ hasNewGenre THEN 5 ELSE 0)
          + (IF IsBool(Get(agent, "is_open_to_submissions")) THEN 10 ELSE 0)
          + (IF \/ Truthy(Get(agent, "requires_bio"))
                \/ Truthy(Get(agent, "requires_expose"))
                \/ Truthy(Get(agent, "requires_project_plan"))
             THEN 10 ELSE 0)
          + (IF isValidUrl(Get(agent, "website")) THEN 5 ELSE 0)
    IN  Min(score, 100)

\* keys whose name includes 'genres', 'keywords' or 'hard_nos'
listKeys == {"accepted_genres_fiction", "accepted_genres_nonfiction",
             "hard_nos", "specific_keywords"}
\* keys whose name includes '_evidence'
evidenceKeys == {"agency_name_evidence"}

\* validateAgent; a key that is absent holds Undefined and is left alone
validateAgent(agent) ==
    Let([agent EXCEPT !.agent_name =
            IF Truthy(@) THEN Str(normalizeName(@)) ELSE @],
        LAMBDA named :
    LET Clean(key) ==
            Let(IF StrictEquals(named[key], Str(sUnknown))
                THEN IF key \in listKeys THEN Arr(<<>>) ELSE Str(<<>>)
                ELSE named[key],
                LAMBDA unknownCleared :
            Let(IF IsStr(unknownCleared) THEN Str(Trim(unknownCleared.v))
                ELSE unknownCleared,
                LAMBDA trimmed :
            IF named[key] = Undefined THEN Undefined
            ELSE IF key \in listKeys \cup evidenceKeys /\ ~IsArr(trimmed)
            THEN Arr(<<>>)
            ELSE trimmed))
    IN
    Let([key \in DOMAIN named |-> Clean(key)], LAMBDA cleaned :
    Let([cleaned EXCEPT
            !.email   = IF Truthy(@) /\ ~isValidEmail(@) THEN Str(<<>>) ELSE @,
            !.website = IF Truthy(@) /\ ~isValidUrl(@) THEN Str(<<>>) ELSE @],
        LAMBDA checked :
    Let(calculateConfidence(checked), LAMBDA score :
    [key \in DOMAIN checked \cup {"confidence_score", "is_valid"} |->
        CASE key = "confidence_score" -> Num(score)
          [] key = "is_valid" ->
                 IF ~Truthy(checked.agent_name) THEN checked.agent_name
                 ELSE Bool(checked.agent_name # Str(sError) /\ score >= 40)
          [] OTHER -> checked[key]]))))

\* extractAgencyWideFields
extractAgencyWideFields(agent) ==
    [ agency_name          |-> agent.agency_name,
      agency_name_evidence |-> agent.agency_name_evidence,
      country              |-> agent.country ]

\* an agency knowledge that follows the latest page with an agency name
agencyKnowledgeLatest(agencyKnowledge, validatedAgent) ==
    IF Truthy(validatedAgent.agency_name)
    THEN extractAgencyWideFields(validatedAgent)
    ELSE agencyKnowledge

\* agencyKnowledge after a page was validated: written when it is still null
\* and the page has an agency name
agencyKnowledgeAfter(agencyKnowledge, validatedAgent) ==
    IF agencyKnowledge = Null /\ Truthy(validatedAgent.agency_name)
    THEN extractAgencyWideFields(validatedAgent)
    ELSE agencyKnowledge

-----------------------------------------------------------------------------
(* Bounded inputs of the validator *)

MaxAgents == 3

SeqsUpTo(S, n) == UNION {[1..k -> S] : k \in 0..n}

sJoLi     == <<"J", "o", " ", "L", "i">>
sLiJo     == <<"L", "i", ",", " ", "J", "o">>
sJo       == <<" ", "j", "o">>
sMailJ    == <<"j", "@", "x", ".", "d", "e">>
sMailK    == <<"K", "@", "x", ".", "d", "e">>
sMailInfo == <<"I", "n", "f", "o", "@", "x", ".", "d", "e">>
sAcme     == <<"A", "c", "m", "e">>
sSite     == <<"h", "t", "t", "p", ":", "/", "/", "x", ".", "d", "e">>

\* records handed to removeDuplicates: names that are equal after
\* normalisation, names contained in one another, shared and distinct emails
DedupAgents ==
    [ agent_name  : {Str(sJoLi), Str(sLiJo), Str(sJo)},
      email       : {Undefined, Str(sMailJ), Str(sMailK)},
      agency_name : {Undefined, Str(sAcme)} ]

\* records handed to the quality gate
GateAgents ==
    [ agent_name       : {Undefined, Null, Str(<<>>), Str(sUnknown), Str(sError),
                          Str(sJoLi)},
      email            : {Undefined, Str(<<>>), Str(sMailJ), Str(sMailInfo)},
      website          : {Undefined, Str(sSite)},
      agency_name      : {Str(<<>>), Str(sAcme)},
      confidence_score : {Undefined, Num(0), Num(19), Num(20), Num(100)} ]

NoAgent == [agent_name |-> Undefined, email |-> Undefined, website |-> Undefined,
            agency_name |-> Undefined, confidence_score |-> Undefined]

ValidatorIdle ==
    /\ vPc = "idle"
    /\ vAgents = <<>> /\ vUnique = <<>> /\ vUnique2 = <<>>
    /\ vRecord = NoAgent /\ vGate = "none" /\ vScore = Null

(* removeDuplicates applied to a list, and again to its own output *)

RemoveDuplicatesOnce ==
    /\ vPc = "input"
    /\ vUnique' = removeDuplicates(vAgents)
    /\ vPc' = "once"
    /\ UNCHANGED <<vAgents, vUnique2, vRecord, vGate, vScore, scVars, gVars, world, spVars, cVars, oVars, rVars, saVars, apVars>>

RemoveDuplicatesAgain ==
    /\ vPc = "once"
    /\ vUnique2' = removeDuplicates(vUnique)
    /\ vPc' = "twice"
    /\ UNCHANGED <<vAgents, vUnique, vRecord, vGate, vScore, scVars, gVars, world, spVars, cVars, oVars, rVars, saVars, apVars>>

(* meetsQualityStandards applied to one record *)

ApplyQualityGate ==
    /\ vPc = "gate"
    /\ vGate' = IF meetsQualityStandards(vRecord) THEN "accept" ELSE "reject"
    /\ vPc' = "gated"
    /\ UNCHANGED <<vAgents, vUnique, vUnique2, vRecord, vScore, scVars, gVars, world, spVars, cVars, oVars, rVars, saVars, apVars>>

(* calculateConfidence applied to one record *)

\* records handed to calculateConfidence: each criterion met or not, the
\* email personal or generic in three letter cases
ConfidenceAgents ==
    [ agent_name  : {Str(sJoLi), Str(sUnknown), Str(sError), Str(<<>>)},
      email       : {Str(sMailJ), Str(sMailInfo), Str(ToLowerCase(sMailInfo)),
                     Str(<<"I", "N", "F", "O", "@", "x", ".", "d", "e">>), Str(<<>>)},
      agency_name : {Str(sAcme), Str(sUnknown)},
      accepted_genres_fiction : {Arr(<<>>), Arr(<<Str(sAcme)>>)},
      is_open_to_submissions  : {Bool(FALSE), Undefined},
      requires_bio            : {Bool(TRUE), Bool(FALSE)},
      requires_manuscript     : {Bool(TRUE), Bool(FALSE)},
      website     : {Str(sSite), Str(sAcme)} ]

CalculateConfidence ==
    /\ vPc = "score"
    /\ vScore' = Num(calculateConfidence(vRecord))
    /\ vPc' = "scored"
    /\ UNCHANGED <<vAgents, vUnique, vUnique2, vRecord, vGate, scVars, gVars, world, spVars, cVars, oVars, rVars, saVars, apVars>>

-----------------------------------------------------------------------------
(* Bounded inputs of the self-consistency engine *)

MaxSamples == 3

sJOLI    == <<"J", "O", " ", "L", "I", " ">>
sAl      == <<"A", "l">>
sSiteX   == <<"h", "t", "t", "p", ":", "/", "/", "X", ".", "d", "e">>
sSiteY   == <<"h", "t", "t", "p", ":", "/", "/", "y", ".", "d", "e">>
sMailJUp == <<"J", "@", "x", ".", "d", "e">>
sYa      == <<"Y", "A">>
sFantasy == <<"F", "a", "n", "t", "a", "s", "y">>

\* records with a name, a boolean flag and a web address
PlainSamples ==
    [ agent_name             : {Str(sJoLi), Str(sJOLI), Str(sAl)},
      is_open_to_submissions : {Bool(TRUE), Bool(FALSE)},
      website                : {Str(sSiteX), Str(sSiteY)} ]

\* records with all three critical fields and a collection
ListSamples ==
    [ agent_name        : {Str(sJoLi)},
      email             : {Str(sMailJ), Str(sMailJUp)},
      agency_name       : {Str(sAcme)},
      specific_keywords : {Arr(<<Str(sYa), Str(sFantasy)>>)} ]

\* the record extractWithOllama returns when phase 1 failed
ErrorSample ==
    [ agent_name |-> Str(sError), agency_name |-> Str(sError),
      country |-> Str(sUnknown), website |-> Str(<<>>), email |-> Str(<<>>),
      is_open_to_submissions |-> Bool(FALSE), requires_bio |-> Bool(FALSE),
      requires_expose |-> Bool(FALSE), requires_manuscript |-> Bool(FALSE),
      audience |-> Arr(<<>>), unmatched_genres |-> Arr(<<>>),
      profile_embedding |-> Null, error |-> Str(sTimeout) ]

\* a record that carries metadata fields only
MetadataOnlySample ==
    [ source_url |-> Str(sSiteX), error |-> Str(sTimeout) ]

Samples == PlainSamples \cup ListSamples \cup {ErrorSample, MetadataOnlySample}

\* records whose samples disagree on a field that holds digits or words
TieSamples ==
    [ agent_name              : {Str(sJoLi), Str(sAl)},
      estimated_response_time : {Str(<<"1", "0">>), Str(<<"2">>),
                                 Str(<<"2", " ", "w">>), Str(<<"1", " ", "w">>)} ]

SelfConsistencyIdle ==
    /\ scPc = "idle" /\ scAnswers = <<>> /\ scResults = <<>>
    /\ scOut = [threw |-> FALSE]

(* extractWithSelfConsistency on the samples it collected *)

ExtractWithSelfConsistency ==
    /\ scPc = "sampled"
    /\ scOut' = extractWithSelfConsistency(scResults)
    /\ scPc' = "merged"
    /\ UNCHANGED <<scAnswers, scResults, vVars, gVars, world, spVars, cVars, oVars, rVars, saVars, apVars>>

-----------------------------------------------------------------------------
(* Bounded inputs of the genre matcher *)

MaxRegistry == 3
MaxTerms == 6

sCrime    == <<"C", "r", "i", "m", "e">>
sTheCrime == <<"T", "h", "e", " ", "C", "r", "i", "m", "e">>
sThe      == <<"T", "h", "e">>
sArt      == <<"A", "r", "t">>
sThePrefix == <<"t", "h", "e", " ">>
sCrimeStory == <<"C", "r", "i", "m", "e", " ", "S", "t", "o", "r", "y">>
sOdd      == <<"q", "z">>

Entry(name, embedding) ==
    [name |-> name, aliases |-> <<>>, embedding |-> embedding]

\* entries a registry can hold: a seed name, and names the approval endpoint
\* accepts next to it (it compares lower-cased names only)
EntryPool ==
    { Entry(sCrime, <<1, 0>>), Entry(sTheCrime, <<4, 3>>),
      Entry(sThe, <<0, 1>>), Entry(sArt, NoEmbedding) }

\* the head of SEED_GENRE_CATEGORIES.fiction, in its order, up to Crime
SeedGenreNames ==
    << <<"A", "c", "t", "i", "o", "n", "/", "A", "d", "v", "e", "n", "t", "u", "r", "e">>,
       <<"B", "I", "P", "O", "C", " ", "C", "r", "i", "m", "e", " ", "F", "i", "c", "t", "i", "o", "n">>,
       <<"B", "I", "P", "O", "C", " ", "L", "i", "t", "e", "r", "a", "t", "u", "r", "e">>,
       <<"B", "I", "P", "O", "C", " ", "M", "y", "s", "t", "e", "r", "y">>,
       <<"B", "I", "P", "O", "C", " ", "T", "h", "r", "i", "l", "l", "e", "r">>,
       <<"B", "o", "o", "k", "c", "l", "u", "b">>,
       <<"C", "a", "r", "i", "b", "b", "e", "a", "n", " ", "L", "i", "t", "e", "r", "a", "t", "u", "r", "e">>,
       <<"C", "h", "i", "l", "d", "r", "e", "n", "'", "s">>,
       <<"C", "o", "m", "m", "e", "r", "c", "i", "a", "l">>,
       <<"C", "o", "n", "t", "e", "m", "p", "o", "r", "a", "r", "y">>,
       <<"C", "r", "i", "m", "e">> >>

sCrimeFiction == <<"C", "r", "i", "m", "e", " ", "F", "i", "c", "t", "i", "o", "n">>
sBipocCrimeFiction == <<"B", "I", "P", "O", "C", " ", "C", "r", "i", "m", "e", " ", "F", "i", "c", "t", "i", "o", "n">>
sACrimeFiction == <<"a", " ", "c", "r", "i", "m", "e", " ", " ", "f", "i", "c", "t", "i", "o", "n">>
sLiterature == <<"L", "i", "t", "e", "r", "a", "t", "u", "r", "e">>
sBookclubPicks == <<"B", "o", "o", "k", "c", "l", "u", "b", " ", "P", "i", "c", "k", "s">>
sComm == <<"C", "o", "m", "m">>

\* initializeRegistry(seedGenres): one entry per seed name, in the order of
\* the list; embedding is what getEmbedding yields for the names, null
\* (NoEmbedding) when the call fails
initializeRegistry(embedding) ==
    [i \in DOMAIN SeedGenreNames |-> Entry(SeedGenreNames[i], embedding)]

\* raw terms looked up in the seeded registry
SeedRawTerms ==
    { sCrimeFiction, sACrimeFiction, sCrime, sCrimeStory, sLiterature,
      sBookclubPicks, sComm, sOdd }

\* entries appended to the seeded registry by approval
SeedAdditions == {<<>>, <<Entry(sArt, NoEmbedding)>>, <<Entry(sCrimeStory, <<4, 3>>)>>}

\* sequences without repetition
InjectiveSeqs(S, n) ==
    {q \in SeqsUpTo(S, n) : \A i, j \in DOMAIN q : i # j => q[i] # q[j]}

\* what getEmbedding can answer for a raw term
EmbeddingAnswers == {<<3, 4>>, <<4, 3>>, <<12, 5>>, NoEmbedding}

\* the registry the batch classification runs against
ClassifyRegistry == <<Entry(sCrime, <<1, 0>>), Entry(sArt, NoEmbedding)>>

\* terms no registry entry matches by name: "q1", "q2", ...
OddTerm(i) == <<"q">> \o NatToString(i)

sMatchedPrefix == <<"C", "r", "i", "m", "e", ";", " ", "t", "h", "e", " ",
                    "c", "r", "i", "m", "e", ",", "F", "i", "c", "t", "i",
                    "o", "n", ",", "x", ",", ",">>

GenreIdle ==
    /\ gPc = "idle" /\ gRegistry = <<>> /\ gTarget = 0 /\ gRaw = <<>>
    /\ gEmbed = <<>> /\ gOut = <<>>

(* findBestMatch on one raw term *)

FindBestMatch ==
    /\ gPc = "match"
    /\ gOut' = findBestMatch(gRaw, gRegistry, EmbeddingOf(gEmbed, gRaw))
    /\ gPc' = "done"
    /\ UNCHANGED <<gRegistry, gTarget, gRaw, gEmbed, vVars, scVars, world, spVars, cVars, oVars, rVars, saVars, apVars>>

(* classifyGenresWithEmbeddings on a delimited string *)

ClassifyGenres ==
    /\ gPc = "classify"
    /\ gOut' = classifyGenresWithEmbeddings(gRaw, gRegistry, gEmbed)
    /\ gPc' = "done"
    /\ UNCHANGED <<gRegistry, gTarget, gRaw, gEmbed, vVars, scVars, world, spVars, cVars, oVars, rVars, saVars, apVars>>

-----------------------------------------------------------------------------
(* Bounded inputs of the crawler *)

MaxUrls == 4
MaxConcurrency == 3
MaxCrawlLinks == 2
MaxLinks == 40

sBare      == <<"x", ".", "d", "e">>
sOrigin    == sHttps \o sBare
sImpressum == sOrigin \o <<"/", "I", "m", "p", "r", "e", "s", "s", "u", "m">>
sAsset     == sOrigin \o <<"/", "a", ".", "P", "D", "F">>
sGhost     == sOrigin \o <<"/", "g", "h", "o", "s", "t">>
sGermany   == <<"G", "e", "r", "m", "a", "n", "y">>
sAcmeLtd   == <<"A", "c", "m", "e", " ", "L", "t", "d">>
sOnSite    == <<"o", "n", " ", "s", "i", "t", "e">>

PageUrl(i) == sOrigin \o <<"/", "p">> \o NatToString(i)

\* the first n pages of the site
PageLinks(n) == [i \in 1..n |-> PageUrl(i)]

\* what the model answers about a page: nothing usable about the agency
\* page at the start URL, one agent under two spellings and two agencies on
\* the first two pages, another agent on the others
AgentInfoOf(url) ==
    LET info(name, agency, mail) ==
            [ failed |-> FALSE, agent_name |-> name, agency_name |-> agency,
              agency_name_evidence |-> Str(sOnSite), contact_email |-> mail,
              is_open_to_submissions |-> Bool(TRUE), requires_bio |-> Bool(FALSE),
              requires_expose |-> Undefined, requires_manuscript |-> Undefined,
              audience |-> Arr(<<>>), hard_nos |-> Arr(<<>>),
              specific_keywords |-> Undefined,
              accepted_genres_fiction |-> Arr(<<>>),
              accepted_genres_nonfiction |-> Arr(<<>>) ]
    IN  CASE url = sOrigin    -> info(Str(sUnknown), Str(sAcme), Str(sMailInfo))
          [] url = PageUrl(1) -> info(Str(sJoLi), Null, Str(sMailJ))
          [] url = PageUrl(2) -> info(Str(sLiJo), Str(sAcmeLtd), Str(sMailJ))
          [] OTHER            -> info(Str(sAl), Str(sAcme), Str(sMailK))

FailedFetch == [ok |-> FALSE]
ShortPage   == [ok |-> TRUE, textLen |-> 200, info |-> NoAnswer]
Page(info)  == [ok |-> TRUE, textLen |-> 201, info |-> info]

\* what a URL of the crawled site may serve
CrawlPages(url) == {FailedFetch, ShortPage, Page(AgentInfoOf(url)), Page(NoAnswer)}

\* what a URL handed to scrapeParallel alone may serve
ScrapePages(url) == {FailedFetch, ShortPage, Page(AgentInfoOf(url))}

\* the ways the link ranking may be answered: not at all, every link with a
\* score, one link only, a link that is not on the site, one link twice
PrioritizationAnswers(urls) ==
    LET n == Len(urls)
    IN  { [parsed |-> FALSE, rankings |-> <<>>],
          [parsed |-> TRUE,
           rankings |-> [i \in 1..n |-> [url |-> urls[i], score |-> (i % 5) + 1]]],
          [parsed |-> TRUE, rankings |-> <<[url |-> urls[n], score |-> 5]>>],
          [parsed |-> TRUE,
           rankings |-> <<[url |-> urls[1], score |-> 4],
                          [url |-> sGhost, score |-> 5]>>],
          [parsed |-> TRUE,
           rankings |-> <<[url |-> urls[1], score |-> 5],
                          [url |-> urls[1], score |-> 5]>>] }

TriageAnswers == {"unparseable", "none", "profiles", "reversed", "junk"}

ScrapeIdle ==
    /\ world = <<>>
    /\ spPc = "idle" /\ spUrls = <<>> /\ spConcurrency = 0 /\ spQueue = <<>>
    /\ spResults = <<>> /\ spWorkers = <<>> /\ spLog = <<>>

\* crawlForAgents before it was called, or when it is called with `url`
CrawlAt(pc, url, single) ==
    /\ cPc = pc /\ cUrl = url /\ cSingle = single
    /\ cUniqueLinks = <<>> /\ cAgentLinks = <<>> /\ cCountry = Str(sUnknown)
    /\ cSuccessful = <<>> /\ cTriage = "unasked" /\ cPages = <<>> /\ cIdx = 0
    /\ cAgents = <<>> /\ cKnowledge = Null /\ cOut = [kind |-> "none"]

CrawlIdle == CrawlAt("idle", <<>>, FALSE)

(* scrapeParallel *)

\* a scrapeParallel that launches one worker for every URL
ScrapeParallelUnbounded(urls, concurrency) ==
    /\ spUrls' = urls
    /\ spConcurrency' = concurrency
    /\ spResults' = <<>>
    /\ spWorkers' = [w \in 1..Len(urls) |-> WorkerTakes(<<urls[w]>>)]
    /\ spQueue' = <<>>
    /\ spLog' = [w \in 1..Len(urls) |-> [worker |-> w, url |-> urls[w]]]
    /\ spPc' = "running"

\* scrapeParallel(urls, concurrency) up to its await Promise.all(workers):
\* Math.min(concurrency, urls.length) workers are launched one after the
\* other, and each runs up to its first await, taking the head of the queue
ScrapeParallelStart(urls, concurrency) ==
    LET launched == Min(concurrency, Len(urls))
    IN  /\ spUrls' = urls
        /\ spConcurrency' = concurrency
        /\ spResults' = <<>>
        /\ spWorkers' = [w \in 1..launched |-> WorkerTakes(<<urls[w]>>)]
        /\ spQueue' = SubSeq(urls, launched + 1, Len(urls))
        /\ spLog' = [w \in 1..launched |-> [worker |-> w, url |-> urls[w]]]
        /\ spPc' = "running"

\* every launched worker has finished: Promise.all(workers) resolves
AllWorkersDone == \A w \in DOMAIN spWorkers : spWorkers[w].st = "done"

\* scrapeParallel is called on its own
ScrapeParallelCalled ==
    /\ spPc = "called"
    /\ ScrapeParallelStart(spUrls, spConcurrency)
    /\ UNCHANGED <<world, cVars, vVars, scVars, gVars, oVars, rVars, saVars, apVars>>

\* the fetch of worker w settles: the worker pushes its entry and goes round
\* its loop, taking the next URL if one is left
FetchSettles(w) ==
    /\ spPc = "running"
    /\ w \in DOMAIN spWorkers
    /\ spWorkers[w].st = "fetching"
    /\ spResults' = PushResult(spResults, spWorkers[w].url,
                               world.page[spWorkers[w].url])
    /\ spWorkers' = [spWorkers EXCEPT ![w] = WorkerTakes(spQueue)]
    /\ spQueue' = IF spQueue # <<>> THEN Tail(spQueue) ELSE spQueue
    /\ spLog' = IF spQueue # <<>>
                THEN Append(spLog, [worker |-> w, url |-> Head(spQueue)])
                ELSE spLog
    /\ UNCHANGED <<spPc, spUrls, spConcurrency, world, cVars, vVars, scVars, gVars, oVars, rVars, saVars, apVars>>

AnyFetchSettles == \E w \in DOMAIN spWorkers : FetchSettles(w)

\* scrapeParallel, called on its own, returns its results
ScrapeParallelReturns ==
    /\ spPc = "running" /\ cPc = "idle"
    /\ AllWorkersDone
    /\ spPc' = "returned"
    /\ UNCHANGED <<spUrls, spConcurrency, spQueue, spResults, spWorkers, spLog,
                   world, cVars, vVars, scVars, gVars, oVars, rVars, saVars, apVars>>

(* crawlForAgents *)

\* the safety check on agentLinks, and the call of extractCountry after it
SafetyCheck(agentLinks) ==
    /\ cAgentLinks' = agentLinks
    /\ IF Len(agentLinks) > MAX_AGENT_LINKS
       THEN /\ cPc' = "returned"
            /\ cOut' = [kind |-> "warning", value |-> TooManyLinksWarning(agentLinks)]
       ELSE cPc' = "country" /\ UNCHANGED cOut

\* filterAgentLinks(links), as far as it gets before it has to wait for the
\* ranking of more than three links
DiscoverLinks(links) ==
    /\ cUniqueLinks' = uniqueLinks(links)
    /\ IF Len(uniqueLinks(links)) > 3
       THEN cPc' = "prioritizing" /\ UNCHANGED <<cAgentLinks, cOut>>
       ELSE SafetyCheck(filterAgentLinks(
                prioritizeUrlsWithLLM(uniqueLinks(links), NoAnswer)))

\* single URL mode: no discovery, the start URL alone is scraped
CrawlSingleUrl ==
    /\ cPc = "start" /\ cSingle
    /\ cUrl' = NormalizeUrl(cUrl)
    /\ ScrapeParallelStart(uniqueUrls(NormalizeUrl(cUrl), <<>>), SCRAPE_CONCURRENCY)
    /\ cPc' = "scraping"
    /\ UNCHANGED <<cSingle, cUniqueLinks, cAgentLinks, cCountry, cSuccessful,
                   cTriage, cPages, cIdx, cAgents, cKnowledge, cOut,
                   world, vVars, scVars, gVars, oVars, rVars, saVars, apVars>>

\* parseSitemap settles: with URLs, which are filtered, or with null, and the
\* page at the start URL is fetched for its links
ParseSitemapSettles ==
    /\ cPc = "start" /\ ~cSingle
    /\ cUrl' = NormalizeUrl(cUrl)
    /\ IF world.sitemap # <<>>
       THEN DiscoverLinks(world.sitemap)
       ELSE cPc' = "mainpage" /\ UNCHANGED <<cUniqueLinks, cAgentLinks, cOut>>
    /\ UNCHANGED <<cSingle, cCountry, cSuccessful, cTriage, cPages, cIdx,
                   cAgents, cKnowledge, world, spVars, vVars, scVars, gVars, oVars, rVars, saVars, apVars>>

\* scrapeUrl(url) of the start page settles: its links are filtered, or the
\* crawl throws what scrapeUrl threw
MainPageSettles ==
    /\ cPc = "mainpage"
    /\ IF world.page[cUrl].ok
       THEN DiscoverLinks(world.links)
       ELSE /\ cPc' = "threw" /\ cOut' = [kind |-> "threw"]
            /\ UNCHANGED <<cUniqueLinks, cAgentLinks>>
    /\ UNCHANGED <<cUrl, cSingle, cCountry, cSuccessful, cTriage, cPages, cIdx,
                   cAgents, cKnowledge, world, spVars, vVars, scVars, gVars, oVars, rVars, saVars, apVars>>

\* prioritizeUrlsWithLLM settles: the ranked links are cut to the cap
PrioritizationSettles ==
    /\ cPc = "prioritizing"
    /\ \E answer \in PrioritizationAnswers(cUniqueLinks) :
           SafetyCheck(filterAgentLinks(
               prioritizeUrlsWithLLM(cUniqueLinks, answer)))
    /\ UNCHANGED <<cUrl, cSingle, cUniqueLinks, cCountry, cSuccessful, cTriage,
                   cPages, cIdx, cAgents, cKnowledge, world, spVars,
                   vVars, scVars, gVars, oVars, rVars, saVars, apVars>>

\* extractCountry settles, with a country or with null, and the scraping of
\* the start URL and the agent links begins
CountrySettles ==
    /\ cPc = "country"
    /\ cCountry' \in {Null, Str(sGermany)}
    /\ ScrapeParallelStart(uniqueUrls(cUrl, cAgentLinks), SCRAPE_CONCURRENCY)
    /\ cPc' = "scraping"
    /\ UNCHANGED <<cUrl, cSingle, cUniqueLinks, cAgentLinks, cSuccessful, cTriage,
                   cPages, cIdx, cAgents, cKnowledge, cOut, world,
                   vVars, scVars, gVars, oVars, rVars, saVars, apVars>>

\* the extraction loop is entered with `pages`; with none, the crawl returns
BeginExtraction(pages) ==
    /\ cPages' = pages
    /\ IF pages = <<>>
       THEN /\ cPc' = "returned"
            /\ cOut' = [kind |-> "agents", value |-> removeDuplicates(cAgents)]
       ELSE cPc' = "extracting" /\ UNCHANGED cOut

\* scrapeParallel returns to crawlForAgents: the usable pages are kept and,
\* when there are more than two, handed to triagePages
CrawlScraped ==
    /\ cPc = "scraping" /\ spPc = "running"
    /\ AllWorkersDone
    /\ spPc' = "returned"
    /\ cSuccessful' = successfulPages(spResults)
    /\ IF Len(successfulPages(spResults)) > 2 /\ ~cSingle
       THEN cPc' = "triage" /\ UNCHANGED <<cPages, cOut>>
       ELSE BeginExtraction(successfulPages(spResults))
    /\ UNCHANGED <<cUrl, cSingle, cUniqueLinks, cAgentLinks, cCountry, cTriage,
                   cIdx, cAgents, cKnowledge, world, spUrls, spConcurrency,
                   spQueue, spResults, spWorkers, spLog, vVars, scVars, gVars, oVars, rVars, saVars, apVars>>

\* triagePages settles
TriageSettles ==
    /\ cPc = "triage"
    /\ cTriage' \in TriageAnswers
    /\ BeginExtraction(pagesToExtract(triagePages(cSuccessful, cTriage', cUrl),
                                      cSuccessful))
    /\ UNCHANGED <<cUrl, cSingle, cUniqueLinks, cAgentLinks, cCountry,
                   cSuccessful, cIdx, cAgents, cKnowledge, world, spVars,
                   vVars, scVars, gVars, oVars, rVars, saVars, apVars>>

\* one round of the extraction loop, from the answer of extractWithOllama on:
\* country, validation, agency knowledge, quality gate; after the last page,
\* the duplicates are removed and the crawl returns
ExtractionSettles ==
    /\ cPc = "extracting"
    /\ Let(cPages[cIdx + 1], LAMBDA page :
       Let(extractWithOllama(world.page[page.url].info,
                             IF hasConfidentAgencyInfo(cKnowledge)
                             THEN cKnowledge ELSE Null),
           LAMBDA agentData :
       Let(validateAgent(
               IF Truthy(cCountry) /\ cCountry # Str(sUnknown)
               THEN [agentData EXCEPT !.country = cCountry]
               ELSE IF cKnowledge # Null /\ Truthy(cKnowledge.country)
               THEN [agentData EXCEPT !.country = cKnowledge.country]
               ELSE agentData),
           LAMBDA validatedAgent :
       Let(IF meetsQualityStandards(validatedAgent)
           THEN Append(cAgents,
                    [key \in DOMAIN validatedAgent \cup {"source_url"} |->
                        IF key = "source_url" THEN Str(page.url)
                        ELSE validatedAgent[key]])
           ELSE cAgents,
           LAMBDA agents :
       /\ cKnowledge' = agencyKnowledgeAfter(cKnowledge, validatedAgent)
       /\ cAgents' = agents
       /\ cIdx' = cIdx + 1
       /\ IF cIdx + 1 = Len(cPages)
          THEN /\ cPc' = "returned"
               /\ cOut' = [kind |-> "agents", value |-> removeDuplicates(agents)]
          ELSE UNCHANGED <<cPc, cOut>>))))
    /\ UNCHANGED <<cUrl, cSingle, cUniqueLinks, cAgentLinks, cCountry,
                   cSuccessful, cTriage, cPages, world, spVars,
                   vVars, scVars, gVars, oVars, rVars, saVars, apVars>>

-----------------------------------------------------------------------------
(* Bounded inputs of the extractor *)

sProse       == <<"s", "o", "r", "r", "y">>
sOpenOnly    == <<"{", "a">>
sCloseFirst  == <<"}", " ", "{">>
sNotJson     == <<"{", "b", "}">>
sTrailing    == <<"{", "a", ",", " ", "}">>
sWrapped     == <<"o", "k", " ", "{", "a", "}", ".">>

\* what the model may say about the agency and the submission status
Phase1Data ==
    { [AgentInfoOf(PageUrl(2)) EXCEPT !.agency_name = agency,
                                      !.is_open_to_submissions = open] :
          agency \in {Null, Str(sAcme), Str(sUnknown)},
          open \in {Undefined, Bool(TRUE)} }

\* how a call may be answered: not at all, or with a text, the
\* classification calls after it succeeding or not
OllamaResponses ==
    [ arrived : {FALSE}, text : {<<>>}, data : {NoAnswer}, classified : {FALSE} ]
    \cup
    [ arrived : {TRUE},
      text : {sProse, sOpenOnly, sCloseFirst, sNotJson, sTrailing, sWrapped},
      data : Phase1Data, classified : BOOLEAN ]

\* knownFields: none, or an agency knowledge
KnownFieldsInputs ==
    {Null} \cup
    [ agency_name : {Str(sAcmeLtd), Str(sUnknown), Str(<<>>)},
      agency_name_evidence : {Arr(<<>>), Undefined},
      country : {Str(sGermany), Str(<<>>), Null, Undefined} ]

OllamaIdle ==
    /\ oPc = "idle" /\ oResponse = NoAnswer /\ oKnown = Null /\ oOut = NoAnswer

(* extractWithOllama on one page *)

ExtractWithOllama ==
    /\ oPc = "called"
    /\ oOut' = extractWithOllama(AgentInfoAndClasses(oResponse), oKnown)
    /\ oPc' = "returned"
    /\ UNCHANGED <<oResponse, oKnown, vVars, scVars, gVars, world, spVars, cVars, rVars, saVars, apVars>>

\* how the model may answer one sample: not usably, or with an agent
SampleAnswers == {NoAnswer, AgentInfoOf(PageUrl(1)), AgentInfoOf(PageUrl(3))}

(* extractMultipleSamples on one page *)

ExtractMultipleSamples ==
    /\ scPc = "called"
    /\ scResults' = extractMultipleSamples(scAnswers, Null)
    /\ scPc' = "sampled"
    /\ UNCHANGED <<scAnswers, scOut, vVars, gVars, world, spVars, cVars, oVars, rVars, saVars, apVars>>

-----------------------------------------------------------------------------
(* The persisted genre registry, its cache and the approval endpoint *)

MaxTasks == 2

sNoir == <<"N", "o", "i", "r">>
sARTUpper == <<"A", "R", "T">>

categoryNames == {"fiction", "nonfiction"}

RegistryEntry(name, category, source) ==
    [name |-> name, category |-> category, source |-> source]

\* the registry initializeRegistry builds from the seed genres
SeedRegistry ==
    << RegistryEntry(sCrime, "fiction", "seed"),
       RegistryEntry(sArt, "nonfiction", "seed") >>

\* getRegistryCategories(registry): the names of each category, in order
getRegistryCategories(registry) ==
    [c \in categoryNames |->
        LET InCategory(g) == g.category = c
            entries == SelectSeq(registry, InCategory)
        IN  [i \in DOMAIN entries |-> entries[i].name]]

\* what a request body may hold
ApprovalRequests ==
    [ genreName : {<<>>, sNoir, sOdd, sARTUpper},
      category  : {"nonfiction", "poetry"} ]

IdleTask == [pc |-> "idle", res |-> "none"]

AnsweredTask(res) == [pc |-> "idle", res |-> res]

RegistryIdle ==
    /\ rDisk = Null /\ rCache = Null /\ rTasks = <<>>

\* POST /api/genres/approve up to the await of getEmbedding in
\* addGenreToRegistry: the request is checked against the registry just
\* loaded, which the handler keeps
ApproveCalled(t, body) ==
    /\ rTasks[t].pc = "idle"
    /\ rTasks' = [rTasks EXCEPT ![t] =
          IF body.genreName = <<>> \/ body.category \notin categoryNames
          THEN AnsweredTask("400 required")
          ELSE IF rDisk = Null
          THEN AnsweredTask("400 not initialized")
          ELSE IF \E i \in DOMAIN rDisk :
                     /\ rDisk[i].category = body.category
                     /\ ToLowerCase(rDisk[i].name) = ToLowerCase(body.genreName)
          THEN AnsweredTask("exists")
          ELSE [pc |-> "embedding", res |-> "none", registry |-> rDisk,
                body |-> body]]
    /\ UNCHANGED <<rDisk, rCache>>

\* getEmbedding settles in addGenreToRegistry: the entry is pushed onto the
\* registry the handler loaded, that registry is saved and the cache is
\* invalidated; or the call failed and the handler answers 500
AddGenreSettles(t, embedded) ==
    /\ rTasks[t].pc = "embedding"
    /\ IF embedded
       THEN /\ rDisk' = Append(rTasks[t].registry,
                            RegistryEntry(rTasks[t].body.genreName,
                                          rTasks[t].body.category, "user"))
            /\ rCache' = Null
            /\ rTasks' = [rTasks EXCEPT ![t] = AnsweredTask("approved")]
       ELSE /\ rTasks' = [rTasks EXCEPT ![t] = AnsweredTask("500")]
            /\ UNCHANGED <<rDisk, rCache>>

\* classifyGenres up to its first await: the registry is loaded, and
\* initialized when there is none
ClassifyGenresCalled(t) ==
    /\ rTasks[t].pc = "idle"
    /\ rTasks' = [rTasks EXCEPT ![t] =
          IF rDisk = Null
          THEN [pc |-> "initializing", res |-> "none", caller |-> "classifyGenres"]
          ELSE AnsweredTask("classified")]
    /\ UNCHANGED <<rDisk, rCache>>

\* getGenreCategories, called by classifyHardNos, up to its first await
GetGenreCategoriesCalled(t) ==
    /\ rTasks[t].pc = "idle"
    /\ IF rCache # Null
       THEN /\ rTasks' = [rTasks EXCEPT ![t] = AnsweredTask("cached")]
            /\ UNCHANGED <<rDisk, rCache>>
       ELSE IF rDisk = Null
       THEN /\ rTasks' = [rTasks EXCEPT ![t] =
                  [pc |-> "initializing", res |-> "none",
                   caller |-> "getGenreCategories"]]
            /\ UNCHANGED <<rDisk, rCache>>
       ELSE /\ rCache' = getRegistryCategories(rDisk)
            /\ rTasks' = [rTasks EXCEPT ![t] = AnsweredTask("loaded")]
            /\ UNCHANGED rDisk

\* initializeRegistry settles: the seed registry is saved, and
\* getGenreCategories caches its categories
InitializeRegistrySettles(t) ==
    /\ rTasks[t].pc = "initializing"
    /\ rDisk' = SeedRegistry
    /\ rCache' = IF rTasks[t].caller = "getGenreCategories"
                 THEN getRegistryCategories(SeedRegistry) ELSE rCache
    /\ rTasks' = [rTasks EXCEPT ![t] = AnsweredTask("initialized")]

RegistryStep ==
    \E t \in DOMAIN rTasks :
        \/ \E body \in ApprovalRequests : ApproveCalled(t, body)
        \/ \E embedded \in BOOLEAN : AddGenreSettles(t, embedded)
        \/ ClassifyGenresCalled(t)
        \/ GetGenreCategoriesCalled(t)
        \/ InitializeRegistrySettles(t)

\* one step of one of the calls in flight
RegistryNext ==
    /\ RegistryStep
    /\ UNCHANGED <<vVars, scVars, gVars, world, spVars, cVars, oVars, saVars, apVars>>

-----------------------------------------------------------------------------
(* POST /api/save *)

MaxSaved == 3

NoResponse == [status |-> 0]

SaveIdle ==
    /\ saPc = "idle" /\ saBody = Null /\ saSubmitted = <<>>
    /\ saSaved = <<>> /\ saFailed = <<>> /\ saOut = NoResponse

\* what a request body may hold as agents: nothing, or a list of records
SaveBodies ==
    {Undefined} \cup
    {Arr(agents) : agents \in SeqsUpTo([agent_name : {Str(sJoLi), Str(sAl)}],
                                       MaxSaved)}

\* res.json({success: true, saved: saved.length, failed: failed.length, ...})
SaveResponse(saved, failed) ==
    [ status |-> 200, saved |-> Len(saved), failed |-> Len(failed),
      savedAgents |-> saved, failedAgents |-> failed ]

\* the head of the loop over agents: the next record is handed to
\* saveToGoogleSheets, or the loop is over and the counts are sent
SaveLoop(submitted, saved, failed) ==
    IF Len(submitted) < Len(saBody.v)
    THEN /\ saSubmitted' = Append(submitted, saBody.v[Len(submitted) + 1])
         /\ saPc' = "saving"
         /\ UNCHANGED saOut
    ELSE /\ saSubmitted' = submitted
         /\ saPc' = "responded"
         /\ saOut' = SaveResponse(saved, failed)

\* the handler up to its first await
SaveCalled ==
    /\ saPc = "called"
    /\ IF ~Truthy(saBody) \/ ~IsArr(saBody)
       THEN /\ saPc' = "responded"
            /\ saOut' = [status |-> 400]
            /\ UNCHANGED <<saSubmitted, saSaved, saFailed>>
       ELSE /\ SaveLoop(<<>>, <<>>, <<>>)
            /\ UNCHANGED <<saSaved, saFailed>>
    /\ UNCHANGED <<saBody, vVars, scVars, gVars, world, spVars, cVars, oVars, rVars, apVars>>

\* a handler whose loop ends at the first record the sink refuses
SinkSettlesAborting(ok) ==
    /\ saPc = "saving"
    /\ IF ok
       THEN /\ saSaved' = Append(saSaved, saSubmitted[Len(saSubmitted)].agent_name)
            /\ SaveLoop(saSubmitted, saSaved', saFailed)
            /\ UNCHANGED saFailed
       ELSE /\ saFailed' = Append(saFailed, saSubmitted[Len(saSubmitted)].agent_name)
            /\ saPc' = "responded"
            /\ saOut' = SaveResponse(saSaved, saFailed')
            /\ UNCHANGED <<saSubmitted, saSaved>>
    /\ UNCHANGED <<saBody, vVars, scVars, gVars, world, spVars, cVars, oVars, rVars, apVars>>

\* saveToGoogleSheets settles: the name is pushed onto saved, or onto failed
\* when it threw, and the loop goes on
SinkSettles(ok) ==
    /\ saPc = "saving"
    /\ saSaved' = IF ok
                  THEN Append(saSaved, saSubmitted[Len(saSubmitted)].agent_name)
                  ELSE saSaved
    /\ saFailed' = IF ok THEN saFailed
                   ELSE Append(saFailed, saSubmitted[Len(saSubmitted)].agent_name)
    /\ SaveLoop(saSubmitted, saSaved', saFailed')
    /\ UNCHANGED <<saBody, vVars, scVars, gVars, world, spVars, cVars, oVars, rVars, apVars>>

SinkSettlesEitherWay == \E ok \in BOOLEAN : SinkSettles(ok)

-----------------------------------------------------------------------------
(* POST /api/crawl *)

MaxApiUrls == 2

sSingle  == <<"s", "i", "n", "g", "l", "e">>
sDynamic == <<"d", "y", "n", "a", "m", "i", "c">>

ApiCrawlIdle ==
    /\ apPc = "idle" /\ apBody = Null /\ apIdx = 0 /\ apAll = <<>>
    /\ apOut = NoResponse

\* what a request body may hold: no urls, an empty list or up to MaxApiUrls
\* URLs of the site, the same one twice included; a mode, or none
ApiCrawlBodies ==
    [ urls : {Undefined, Arr(<<>>)} \cup
             {Arr(urls) : urls \in SeqsUpTo({sOrigin, PageUrl(1), PageUrl(2)},
                                            MaxApiUrls) \ {<<>>}},
      mode : {Undefined, Str(sUnknown), Str(sSingle), Str(sDynamic)} ]

\* crawlForAgents(url, {singleUrlMode}) is called
CallCrawlForAgents(url, single) ==
    /\ cPc' = "start" /\ cUrl' = url /\ cSingle' = single
    /\ cUniqueLinks' = <<>> /\ cAgentLinks' = <<>> /\ cCountry' = Str(sUnknown)
    /\ cSuccessful' = <<>> /\ cTriage' = "unasked" /\ cPages' = <<>> /\ cIdx' = 0
    /\ cAgents' = <<>> /\ cKnowledge' = Null /\ cOut' = [kind |-> "none"]

\* res.json({success: true, mode, urlsProcessed, agentsFound, agents})
ApiCrawlResponse(mode, urls, allAgents) ==
    [ status |-> 200, success |-> TRUE, mode |-> mode,
      urlsProcessed |-> IF mode = Str(sSingle) THEN Len(urls) ELSE 1,
      agentsFound |-> Len(allAgents), agents |-> allAgents ]

\* the handler up to its first await: the body is validated and
\* crawlForAgents is called on the first URL
ApiCrawlCalled ==
    /\ apPc = "called"
    /\ IF \/ ~Truthy(apBody.urls) \/ ~IsArr(apBody.urls) \/ Len(apBody.urls.v) = 0
          \/ ~Truthy(apBody.mode) \/ apBody.mode \notin {Str(sSingle), Str(sDynamic)}
       THEN /\ apPc' = "responded"
            /\ apOut' = [status |-> 400]
            /\ UNCHANGED <<apIdx, cVars>>
       ELSE /\ apPc' = "crawling"
            /\ apIdx' = 1
            /\ CallCrawlForAgents(apBody.urls.v[1], apBody.mode = Str(sSingle))
            /\ UNCHANGED apOut
    /\ UNCHANGED <<apBody, apAll, vVars, scVars, gVars, world, spVars, oVars, rVars, saVars>>

\* allAgents.concat(result)
ApiCrawlCollect(allAgents, result) == allAgents \o result

\* crawlForAgents settles.  Single mode: a warning or an exception is
\* skipped, a list is concatenated to allAgents, and the loop goes on to the
\* next URL or the response is sent.  Dynamic mode: the warning is sent back,
\* or the list is the response.
CrawlForAgentsSettles ==
    /\ apPc = "crawling"
    /\ cPc \in {"returned", "threw"}
    /\ Let(IF cOut.kind = "agents" THEN ApiCrawlCollect(apAll, cOut.value) ELSE apAll,
           LAMBDA allAgents :
       /\ apAll' = allAgents
       /\ IF apBody.mode = Str(sSingle) /\ apIdx < Len(apBody.urls.v)
          THEN /\ CallCrawlForAgents(apBody.urls.v[apIdx + 1], TRUE)
               /\ apIdx' = apIdx + 1
               /\ UNCHANGED <<apPc, apOut>>
          ELSE /\ apPc' = "responded"
               /\ apOut' = IF apBody.mode = Str(sSingle) \/ cOut.kind = "agents"
                           THEN ApiCrawlResponse(apBody.mode, apBody.urls.v, allAgents)
                           ELSE IF cOut.kind = "warning"
                           THEN [status |-> 200, success |-> FALSE,
                                 warning |-> cOut.value]
                           ELSE [status |-> 500]
               /\ UNCHANGED <<apIdx, cVars>>)
    /\ UNCHANGED <<apBody, vVars, scVars, gVars, world, spVars, oVars, rVars, saVars>>

-----------------------------------------------------------------------------
(* Specifications *)

\* removeDuplicates on every list of at most MaxAgents records of DedupAgents
InitDedup ==
    /\ vPc = "input"
    /\ vAgents \in SeqsUpTo(DedupAgents, MaxAgents)
    /\ vUnique = <<>> /\ vUnique2 = <<>>
    /\ vRecord = NoAgent /\ vGate = "none" /\ vScore = Null
    /\ SelfConsistencyIdle /\ GenreIdle /\ ScrapeIdle /\ CrawlIdle /\ OllamaIdle /\ RegistryIdle /\ SaveIdle /\ ApiCrawlIdle

NextDedup == RemoveDuplicatesOnce \/ RemoveDuplicatesAgain

SpecDedup == InitDedup /\ [][NextDedup]_vars

\* meetsQualityStandards on every record of GateAgents
InitGate ==
    /\ vPc = "gate"
    /\ vRecord \in GateAgents
    /\ vAgents = <<>> /\ vUnique = <<>> /\ vUnique2 = <<>>
    /\ vGate = "none" /\ vScore = Null
    /\ SelfConsistencyIdle /\ GenreIdle /\ ScrapeIdle /\ CrawlIdle /\ OllamaIdle /\ RegistryIdle /\ SaveIdle /\ ApiCrawlIdle

NextGate == ApplyQualityGate

SpecGate == InitGate /\ [][NextGate]_vars

\* extractWithSelfConsistency on every list of at most MaxSamples samples
InitSelfConsistency ==
    /\ scPc = "sampled"
    /\ scAnswers = <<>>
    /\ scResults \in SeqsUpTo(Samples, MaxSamples)
    /\ scOut = [threw |-> FALSE]
    /\ ValidatorIdle /\ GenreIdle /\ ScrapeIdle /\ CrawlIdle /\ OllamaIdle /\ RegistryIdle /\ SaveIdle /\ ApiCrawlIdle

NextSelfConsistency == ExtractWithSelfConsistency

\* extractWithSelfConsistency on samples that may tie on a field
InitTies ==
    /\ scPc = "sampled"
    /\ scAnswers = <<>>
    /\ scResults \in SeqsUpTo(TieSamples, MaxSamples) \ {<<>>}
    /\ scOut = [threw |-> FALSE]
    /\ ValidatorIdle /\ GenreIdle /\ ScrapeIdle /\ CrawlIdle /\ OllamaIdle /\ RegistryIdle /\ SaveIdle /\ ApiCrawlIdle

NextTies == ExtractWithSelfConsistency

SpecTies == InitTies /\ [][NextTies]_vars

\* calculateConfidence on every record of ConfidenceAgents
InitConfidence ==
    /\ vPc = "score"
    /\ vRecord \in ConfidenceAgents
    /\ vAgents = <<>> /\ vUnique = <<>> /\ vUnique2 = <<>>
    /\ vGate = "none" /\ vScore = Null
    /\ SelfConsistencyIdle /\ GenreIdle /\ ScrapeIdle /\ CrawlIdle /\ OllamaIdle /\ RegistryIdle /\ SaveIdle /\ ApiCrawlIdle

NextConfidence == CalculateConfidence

SpecConfidence == InitConfidence /\ [][NextConfidence]_vars

\* extractWithSelfConsistency called for up to MaxSamples samples, each
\* answered in one of the ways of SampleAnswers
InitSampling ==
    /\ scPc = "called"
    /\ scAnswers \in SeqsUpTo(SampleAnswers, MaxSamples)
    /\ scResults = <<>>
    /\ scOut = [threw |-> FALSE]
    /\ ValidatorIdle /\ GenreIdle /\ ScrapeIdle /\ CrawlIdle /\ OllamaIdle /\ RegistryIdle /\ SaveIdle /\ ApiCrawlIdle

NextSampling == ExtractMultipleSamples \/ ExtractWithSelfConsistency

SpecSampling == InitSampling /\ [][NextSampling]_vars

SpecSelfConsistency == InitSelfConsistency /\ [][NextSelfConsistency]_vars

\* findBestMatch("the X", registry) for every entry X of every registry of
\* at most MaxRegistry distinct entries, and findBestMatch on two other terms
InitMatch ==
    /\ gPc = "match"
    /\ gRegistry \in InjectiveSeqs(EntryPool, MaxRegistry) \ {<<>>}
    /\ \/ /\ gTarget \in DOMAIN gRegistry
          /\ gRaw = sThePrefix \o gRegistry[gTarget].name
          /\ gEmbed = (gRaw :> NoEmbedding)
       \/ /\ gTarget = 0
          /\ gRaw \in {sCrimeStory, sOdd}
          /\ gEmbed \in [{gRaw} -> EmbeddingAnswers]
    /\ gOut = <<>>
    /\ ValidatorIdle /\ SelfConsistencyIdle /\ ScrapeIdle /\ CrawlIdle /\ OllamaIdle /\ RegistryIdle /\ SaveIdle /\ ApiCrawlIdle

NextMatch == FindBestMatch

SpecMatch == InitMatch /\ [][NextMatch]_vars

\* findBestMatch on raw terms against the registry initializeRegistry builds
\* from the seed list, as seeded or with one approved entry appended
InitSeedMatch ==
    /\ gPc = "match"
    /\ \E embedding \in {<<1, 0>>, NoEmbedding}, added \in SeedAdditions :
          gRegistry = initializeRegistry(embedding) \o added
    /\ gTarget = 0
    /\ gRaw \in SeedRawTerms
    /\ gEmbed \in [{gRaw} -> EmbeddingAnswers]
    /\ gOut = <<>>
    /\ ValidatorIdle /\ SelfConsistencyIdle /\ ScrapeIdle /\ CrawlIdle /\ OllamaIdle /\ RegistryIdle /\ SaveIdle /\ ApiCrawlIdle

NextSeedMatch == FindBestMatch

SpecSeedMatch == InitSeedMatch /\ [][NextSeedMatch]_vars

\* classifyGenresWithEmbeddings on strings of up to MaxTerms unknown terms,
\* alone or after terms that are matched, skipped or too short
InitClassify ==
    /\ gPc = "classify"
    /\ gRegistry = ClassifyRegistry
    /\ gTarget = 0
    /\ \E n \in 0..MaxTerms :
          /\ gRaw \in { JoinStrings([i \in 1..n |-> OddTerm(i)], <<",", " ">>),
                        sMatchedPrefix \o
                        JoinStrings([i \in 1..n |-> OddTerm(i)], <<";">>) }
          /\ gEmbed \in [{OddTerm(i) : i \in 1..n} -> EmbeddingAnswers]
    /\ gOut = <<>>
    /\ ValidatorIdle /\ SelfConsistencyIdle /\ ScrapeIdle /\ CrawlIdle /\ OllamaIdle /\ RegistryIdle /\ SaveIdle /\ ApiCrawlIdle

NextClassify == ClassifyGenres

SpecClassify == InitClassify /\ [][NextClassify]_vars

-----------------------------------------------------------------------------
\* scrapeParallel on every list of at most MaxUrls URLs out of two, with
\* every concurrency up to MaxConcurrency and whatever the URLs serve; every
\* fetch settles, scrapeUrl giving up after its timeout
InitScrape ==
    /\ spPc = "called"
    /\ spUrls \in SeqsUpTo({PageUrl(1), PageUrl(2)}, MaxUrls)
    /\ spConcurrency \in 1..MaxConcurrency
    /\ \E first \in ScrapePages(PageUrl(1)), second \in ScrapePages(PageUrl(2)) :
           world = [ page    |-> (PageUrl(1) :> first) @@ (PageUrl(2) :> second),
                     sitemap |-> <<>>, links |-> <<>> ]
    /\ spQueue = <<>> /\ spResults = <<>> /\ spWorkers = <<>> /\ spLog = <<>>
    /\ ValidatorIdle /\ SelfConsistencyIdle /\ GenreIdle /\ CrawlIdle /\ OllamaIdle /\ RegistryIdle /\ SaveIdle /\ ApiCrawlIdle

NextScrape == ScrapeParallelCalled \/ AnyFetchSettles \/ ScrapeParallelReturns

SpecScrape == InitScrape /\ [][NextScrape]_vars /\ WF_vars(NextScrape)

\* the links a sitemap or a start page may hold: n pages, alone or followed
\* by an asset, a legal page, a page once more and the start URL
DiscoveredLinks(n) ==
    { PageLinks(n),
      PageLinks(n) \o <<sAsset, sImpressum, PageUrl(1), sOrigin>> }

\* the discovery phase of a crawl, up to the first fetches of scrapeParallel,
\* on sites with few links, with about MAX_AGENT_LINKS and with MaxLinks
InitDiscover ==
    /\ \E url \in {sOrigin, sBare} : CrawlAt("start", url, FALSE)
    /\ \E n \in {0, 1, 3, 4, MAX_AGENT_LINKS - 1, MAX_AGENT_LINKS,
                 MAX_AGENT_LINKS + 1, MAX_AGENT_LINKS + 2, MaxLinks} :
       \E found \in DiscoveredLinks(n), start \in {FailedFetch, Page(NoAnswer)} :
           world \in { [page |-> (sOrigin :> start), sitemap |-> found,
                        links |-> <<>>],
                       [page |-> (sOrigin :> start), sitemap |-> <<>>,
                        links |-> found] }
    /\ spPc = "idle" /\ spUrls = <<>> /\ spConcurrency = 0 /\ spQueue = <<>>
    /\ spResults = <<>> /\ spWorkers = <<>> /\ spLog = <<>>
    /\ ValidatorIdle /\ SelfConsistencyIdle /\ GenreIdle /\ OllamaIdle /\ RegistryIdle /\ SaveIdle /\ ApiCrawlIdle

NextDiscover ==
    ParseSitemapSettles \/ MainPageSettles \/ PrioritizationSettles
        \/ CountrySettles

SpecDiscover == InitDiscover /\ [][NextDiscover]_vars

\* the links of a small site: its first k pages, the last of them possibly
\* replaced by the start URL
CrawlLinks(k) ==
    {PageLinks(k)} \cup
    (IF k > 0 THEN {[PageLinks(k) EXCEPT ![k] = sOrigin]} ELSE {})

\* a whole crawl of a site of at most MaxCrawlLinks pages besides the start
\* page, in either mode, whatever each of its URLs serves
CrawlWorld ==
    \E k \in 0..MaxCrawlLinks :
    \E found \in CrawlLinks(k) :
    \E pages \in [{sOrigin} \cup {PageUrl(i) : i \in 1..k} ->
                     UNION {CrawlPages(u) : u \in {sOrigin} \cup {PageUrl(i) : i \in 1..k}}] :
        /\ \A u \in DOMAIN pages : pages[u] \in CrawlPages(u)
        /\ world \in { [page |-> pages, sitemap |-> found, links |-> <<>>],
                       [page |-> pages, sitemap |-> <<>>, links |-> found] }

InitCrawl ==
    /\ \E single \in BOOLEAN : CrawlAt("start", sOrigin, single)
    /\ CrawlWorld
    /\ spPc = "idle" /\ spUrls = <<>> /\ spConcurrency = 0 /\ spQueue = <<>>
    /\ spResults = <<>> /\ spWorkers = <<>> /\ spLog = <<>>
    /\ ValidatorIdle /\ SelfConsistencyIdle /\ GenreIdle /\ OllamaIdle /\ RegistryIdle /\ SaveIdle /\ ApiCrawlIdle

NextCrawl ==
    CrawlSingleUrl \/ ParseSitemapSettles \/ MainPageSettles \/ CountrySettles
        \/ AnyFetchSettles \/ CrawlScraped \/ TriageSettles \/ ExtractionSettles

SpecCrawl == InitCrawl /\ [][NextCrawl]_vars /\ WF_vars(NextCrawl)

\* POST /api/crawl on every body of ApiCrawlBodies whose URLs are pages of
\* the site, whatever each of its URLs serves
InitApiCrawl ==
    /\ apPc = "called" /\ apIdx = 0 /\ apAll = <<>> /\ apOut = NoResponse
    /\ apBody \in ApiCrawlBodies
    /\ CrawlIdle
    /\ CrawlWorld
    /\ IsArr(apBody.urls) =>
           \A i \in DOMAIN apBody.urls.v : apBody.urls.v[i] \in DOMAIN world.page
    /\ spPc = "idle" /\ spUrls = <<>> /\ spConcurrency = 0 /\ spQueue = <<>>
    /\ spResults = <<>> /\ spWorkers = <<>> /\ spLog = <<>>
    /\ ValidatorIdle /\ SelfConsistencyIdle /\ GenreIdle /\ OllamaIdle /\ RegistryIdle /\ SaveIdle

NextApiCrawl == ApiCrawlCalled \/ NextCrawl \/ CrawlForAgentsSettles

SpecApiCrawl == InitApiCrawl /\ [][NextApiCrawl]_vars

\* extractWithOllama on every response of OllamaResponses, with every
\* knownFields of KnownFieldsInputs
InitOllama ==
    /\ oPc = "called"
    /\ oResponse \in OllamaResponses
    /\ oKnown \in KnownFieldsInputs
    /\ oOut = NoAnswer
    /\ ValidatorIdle /\ SelfConsistencyIdle /\ GenreIdle /\ ScrapeIdle /\ CrawlIdle /\ RegistryIdle /\ SaveIdle /\ ApiCrawlIdle

NextOllama == ExtractWithOllama

SpecOllama == InitOllama /\ [][NextOllama]_vars

\* a server with up to MaxTasks requests and classification calls in
\* flight at a time, started without a registry file or with the seed one
InitRegistry ==
    /\ rDisk \in {Null, SeedRegistry}
    /\ rCache = Null
    /\ rTasks = [t \in 1..MaxTasks |-> IdleTask]
    /\ ValidatorIdle /\ SelfConsistencyIdle /\ GenreIdle /\ ScrapeIdle /\ CrawlIdle /\ OllamaIdle /\ SaveIdle /\ ApiCrawlIdle

SpecRegistry == InitRegistry /\ [][RegistryNext]_vars

\* POST /api/save with every body of SaveBodies, the sink accepting or
\* refusing each record
InitSave ==
    /\ saPc = "called"
    /\ saBody \in SaveBodies
    /\ saSubmitted = <<>> /\ saSaved = <<>> /\ saFailed = <<>>
    /\ saOut = NoResponse
    /\ ValidatorIdle /\ SelfConsistencyIdle /\ GenreIdle /\ ScrapeIdle /\ CrawlIdle /\ OllamaIdle /\ RegistryIdle /\ ApiCrawlIdle

NextSave == SaveCalled \/ SinkSettlesEitherWay

SpecSave == InitSave /\ [][NextSave]_vars /\ WF_vars(NextSave)

-----------------------------------------------------------------------------
(* Claims *)

\* C5: deduplication is idempotent: removeDuplicates applied to its own
\* output returns the same sequence, although the duplicate relation is not
\* transitive.
C5_DedupIdempotent == vPc = "twice" => vUnique2 = vUnique

\* a run on a list whose duplicate relation is not transitive and from which
\* a record was dropped
C5_Witness ==
    /\ vPc = "twice"
    /\ Len(vUnique) < Len(vAgents)
    /\ Len(vUnique) >= 2
    /\ \E i, j, k \in DOMAIN vAgents :
          /\ isDuplicate(vAgents[i], vAgents[j])
          /\ isDuplicate(vAgents[j], vAgents[k])
          /\ ~isDuplicate(vAgents[i], vAgents[k])

NameIsSentinel(r) ==
    r.agent_name \in {Undefined, Null, Str(<<>>), Str(sUnknown), Str(sError)}

\* C6: the quality gate rejects every record whose name is empty, absent,
\* 'Unknown' or 'Error', whatever its other fields; it accepts every record
\* with a non-sentinel name, a valid email and confidence_score >= 20; its
\* outcome is always an accept or a reject, never an exception.
C6_QualityGate ==
    vPc = "gated" =>
        /\ vGate \in {"accept", "reject"}
        /\ NameIsSentinel(vRecord) => vGate = "reject"
        /\ ( /\ ~NameIsSentinel(vRecord)
             /\ isValidEmail(vRecord.email)
             /\ vRecord.confidence_score.t = "number"
             /\ vRecord.confidence_score.v >= 20 ) => vGate = "accept"

\* a record accepted on its name, valid email and a confidence of exactly 20
C6_Witness ==
    /\ vPc = "gated" /\ vGate = "accept"
    /\ isValidEmail(vRecord.email)
    /\ vRecord.confidence_score = Num(20)
    /\ ~Truthy(vRecord.website) /\ ~Truthy(vRecord.agency_name)

AllIdentical(results) == \A i \in DOMAIN results : results[i] = results[1]

\* C3: for N >= 2 identical copies of a record r, the consensus has overall
\* score 1.0 (100%), needsReview is false and the merged record equals r
\* field by field, in value and in type.
C3_IdenticalSamplesMergeToSample ==
    (scPc = "merged" /\ Len(scResults) >= 2 /\ AllIdentical(scResults)) =>
        /\ ~scOut.threw
        /\ scOut.self_consistency.score = Num(100)
        /\ scOut.self_consistency.needsReview = FALSE
        /\ scOut.merged = scResults[1]

C8_NeedsReviewExactlyBelowTwoThirds ==
    (scPc = "merged" /\ ~scOut.threw) =>
        LET scores == scOut.self_consistency.fieldScores
            total  == Len(scResults) * Cardinality(DOMAIN scores)
            sum    == SumCounts(scores, DOMAIN scores)
        IN  scOut.self_consistency.needsReview <=>
               \/ total # 0 /\ 10 * sum < 7 * total
               \/ \E f \in DOMAIN scores \cap criticalFields :
                     3 * scores[f].count < 2 * scores[f].total

Elements(q) == {q[i] : i \in DOMAIN q}

\* C2: classifyGenresWithEmbeddings returns at most 5 unmatched candidates,
\* and when more than 5 terms were rejected, every retained one has a
\* similarity at least that of every evicted one.
C2_UnmatchedKeepsMostSimilar ==
    gPc = "done" =>
        LET rejected == Elements(ClassifyAll(gRaw, gRegistry, gEmbed).unmatched)
            retained == Elements(gOut.unmatched)
        IN  /\ Len(gOut.unmatched) <= 5
            /\ Cardinality(rejected) > 5 =>
                  \A k \in retained : \A e \in rejected \ retained :
                      k.similarity >= e.similarity

\* C7 as stated: findBestMatch("the X") returns X with similarity 1.0 for
\* every entry X of the registry, wherever X stands in it.
C7_TheXMatchesX ==
    (gPc = "done" /\ gTarget # 0) =>
        /\ gOut.match = Str(gRegistry[gTarget].name)
        /\ gOut.similarity = 100

\* C7 as amended: when X does not normalise to the empty string,
\* findBestMatch("the X") returns similarity 1.0 and the first entry whose
\* normalised name (or an alias) equals the normalised X, which is X itself
\* unless an earlier entry normalises to the same text; when X normalises to
\* the empty string there is no match and the similarity is 0.
C7_TheXMatchesFirstEntryLikeX ==
    (gPc = "done" /\ gTarget # 0) =>
        LET n == normalize(gRegistry[gTarget].name)
            like(g) == \/ normalize(g.name) = n
                       \/ \E a \in DOMAIN g.aliases : normalize(g.aliases[a]) = n
        IN  IF n = <<>>
            THEN gOut.match = Null /\ gOut.similarity = 0
            ELSE /\ gOut.similarity = 100
                 /\ \E j \in 1..gTarget :
                       /\ gOut.match = Str(gRegistry[j].name)
                       /\ like(gRegistry[j])
                       /\ \A i \in 1..(j - 1) : ~like(gRegistry[i])
                 /\ (\A i \in 1..(gTarget - 1) : ~like(gRegistry[i]))
                       => gOut.match = Str(gRegistry[gTarget].name)

\* "the Crime" looked up in a registry whose second entry is Crime
C7_Witness ==
    /\ gPc = "done" /\ gTarget = 2
    /\ gRegistry[2].name = sCrime
    /\ gOut.match = Str(sCrime) /\ gOut.similarity = 100


\* C1: in a crawl that is not in single URL mode, whenever more than
\* MAX_AGENT_LINKS candidate links are left after filtering and removal of
\* repetitions, counted before the cut to the cap, crawlForAgents returns the
\* warning object, with foundLinks that count, limit 25 and at most ten
\* sample URLs, returns no records, and fetches no candidate page.
C1_OverflowReturnsWarning ==
    (/\ ~cSingle
     /\ cPc \in {"country", "scraping", "returned"}
     /\ Len(cUniqueLinks) > MAX_AGENT_LINKS)
    => /\ cPc = "returned"
       /\ cOut.kind = "warning"
       /\ cOut.value.warning /\ cOut.value.tooManyLinks
       /\ cOut.value.foundLinks = Len(cUniqueLinks)
       /\ cOut.value.limit = 25
       /\ Len(cOut.value.sampleUrls) <= 10
       /\ spLog = <<>>

\* C9: scrapeParallel terminates and, when it returns, holds exactly one
\* entry per input URL, the content for a fetch that succeeded and the error
\* for one that failed; every URL was taken from the queue once, by one
\* worker, whatever failed before it.
C9_OneEntryPerUrl ==
    /\ <>(spPc = "returned")
    /\ [](spPc = "returned" =>
            /\ Len(spResults) = Len(spUrls)
            /\ \A i \in DOMAIN spResults :
                   spResults[i] = ResultEntry(spResults[i].url,
                                              world.page[spResults[i].url])
            /\ \A url \in {spUrls[i] : i \in DOMAIN spUrls} :
                   Cardinality({i \in DOMAIN spResults : spResults[i].url = url})
                     = Cardinality({i \in DOMAIN spUrls : spUrls[i] = url})
            /\ [i \in DOMAIN spLog |-> spLog[i].url] = spUrls
            /\ \A i \in DOMAIN spLog : spLog[i].worker \in DOMAIN spWorkers)

\* scrapeParallel returned after more URLs than workers, two workers or more,
\* with a failed fetch recorded before a successful one and the entries in
\* another order than the URLs
C9_Witness ==
    /\ spPc = "returned" /\ cPc = "idle"
    /\ spConcurrency > 1 /\ Len(spUrls) > spConcurrency
    /\ [i \in DOMAIN spResults |-> spResults[i].url] # spUrls
    /\ \E i, j \in DOMAIN spResults :
           i < j /\ spResults[i].error # Null /\ spResults[j].content # Null

\* the entries scrapeParallel would return had every fetch settled in the
\* order of the URLs
InOrderResults ==
    [i \in DOMAIN spUrls |-> ResultEntry(spUrls[i], world.page[spUrls[i]])]

\* the pages the crawl would extract from them, triage answering the same way
InOrderPages ==
    LET successful == successfulPages(InOrderResults)
    IN  IF Len(successful) > 2 /\ ~cSingle
        THEN pagesToExtract(triagePages(successful, cTriage, cUrl), successful)
        ELSE successful

\* C10: the start URL, the candidate links, what every URL serves and what
\* the model answers being fixed, the pages are extracted in the same order
\* whatever the order in which the concurrent fetches complete: the order of
\* a crawl whose fetches complete in the order of the URLs.
C10_ExtractionOrderIndependent ==
    (cPc \in {"extracting", "returned"} /\ spPc = "returned")
    => cPages = InOrderPages

\* C11: within one crawl agencyKnowledge is written at most once: it starts
\* null, and once it has a value no later page changes any of its fields,
\* whatever the extraction of that page returns.
C11_AgencyKnowledgeWrittenOnce ==
    /\ cPc = "start" => cKnowledge = Null
    /\ [][cKnowledge # Null => cKnowledge' = cKnowledge]_vars

\* agencyKnowledge is set and a page extracted after the first one was
\* answered with another agency name than the one it holds
C11_Witness ==
    /\ cPc \in {"extracting", "returned"}
    /\ cKnowledge # Null
    /\ \E k \in 2..cIdx :
           LET info == world.page[cPages[k].url].info
           IN  /\ ~info.failed
               /\ Truthy(info.agency_name)
               /\ info.agency_name # Str(sUnknown)
               /\ info.agency_name # cKnowledge.agency_name

booleanFields == {"is_open_to_submissions", "requires_bio", "requires_expose",
                  "requires_manuscript"}
collectionFields == {"accepted_genres_fiction", "accepted_genres_nonfiction",
                     "hard_nos", "audience", "specific_keywords"}

\* C16: extractWithOllama never throws: for every failure of phase 1 (the
\* call fails, the response holds no JSON object, the JSON cannot be parsed
\* even after the rewrite) it returns a record with the error marker set,
\* agent_name 'Error', every boolean business field false and every
\* collection business field an empty list.
C16_ErrorRecordAtSafeDefaults ==
    (oPc = "returned" /\ extractAgentInfo(oResponse).failed)
    => /\ Truthy(oOut.error)
       /\ oOut.agent_name = Str(sError)
       /\ \A f \in booleanFields : Get(oOut, f) = Bool(FALSE)
       /\ \A f \in collectionFields : Get(oOut, f) = Arr(<<>>)

\* C13: at every point the cached category view is either empty or equal to
\* the categories of the currently persisted registry, so that no
\* classification call reads a view older than the last completed write
\* (seed initialization from any call site, or approval of a new term).
C13_CacheNeverStale ==
    rCache # Null => (rDisk # Null /\ rCache = getRegistryCategories(rDisk))

\* C14: registry writes are append-only: every entry of the persisted
\* registry is still in it after any later step of any approval or seed
\* initialization, overlapping ones included.
C14_RegistryAppendOnly ==
    [][rDisk # Null =>
          /\ rDisk' # Null
          /\ \A i \in DOMAIN rDisk : \E j \in DOMAIN rDisk' : rDisk'[j] = rDisk[i]]_vars

\* C15: a dynamic crawl never throws: whatever fetch fails, the fetch of the
\* start page for its links when there is no sitemap included, and whatever
\* page extraction fails, crawlForAgents does not end by throwing.
C15_DynamicCrawlNeverThrows ==
    ~cSingle => (cPc # "threw" /\ cOut.kind # "threw")

\* the pages of the extraction loop have been chosen
PagesChosen ==
    cPc = "extracting" \/ (cPc = "returned" /\ spPc = "returned")

C17_PagesChosen ==
    PagesChosen =>
        \* every page handed to extraction was fetched with more than 200
        \* characters of text
        /\ \A i \in DOMAIN cPages :
               /\ \E j \in DOMAIN cSuccessful : cPages[i] = cSuccessful[j]
               /\ \E k \in DOMAIN spResults :
                      /\ spResults[k] = cPages[i]
                      /\ spResults[k].content # Null
                      /\ world.page[spResults[k].url].ok
                      /\ world.page[spResults[k].url].textLen > 200
        \* at most two pages, or single-URL mode: no triage, all extracted
        /\ (Len(cSuccessful) <= 2 \/ cSingle) =>
               (cTriage = "unasked" /\ cPages = cSuccessful)
        \* otherwise triage was asked
        /\ (Len(cSuccessful) > 2 /\ ~cSingle) => cTriage # "unasked"
        \* a failed or unparseable triage keeps every page
        /\ cTriage = "unparseable" => cPages = cSuccessful
        \* indices outside 0..n-1 are dropped, the others are kept
        /\ cTriage # "unasked" =>
               Let(triagePages(cSuccessful, cTriage, cUrl), LAMBDA relevant :
                   /\ Len(cPages) =
                          Cardinality({k \in DOMAIN relevant :
                              relevant[k] \in 0..(Len(cSuccessful) - 1)})
                   /\ \A k \in DOMAIN relevant :
                          relevant[k] \in 0..(Len(cSuccessful) - 1) =>
                              \E i \in DOMAIN cPages :
                                  cPages[i] = cSuccessful[relevant[k] + 1])

C18_ConsensusOverSuccessfulSamples ==
    scPc = "merged" /\ scAnswers # <<>> =>
        Let(SelectSeq(scAnswers, LAMBDA a : ~a.failed), LAMBDA succeeded :
            /\ scOut.threw <=> succeeded = <<>>
            /\ ~scOut.threw =>
                  /\ scOut.self_consistency.samples = Len(succeeded)
                  /\ Get(scOut.merged, "error") = Undefined
                  /\ ~StrictEquals(Get(scOut.merged, "agent_name"), Str(sError)))

\* the submission requirement flags a record may carry
requirementFlags ==
    {"requires_bio", "requires_expose", "requires_manuscript",
     "requires_project_plan"}

\* the sum of the weights of the criteria `agent` satisfies
WeightOfCriteria(agent) ==
      (IF Truthy(Get(agent, "agent_name")) /\ ~NameIsSentinel(agent)
       THEN 30 ELSE 0)
    + (IF isValidEmail(Get(agent, "email")) THEN 20 ELSE 0)
    + (IF /\ Truthy(Get(agent, "agency_name"))
          /\ Get(agent, "agency_name") # Str(sUnknown) THEN 20 ELSE 0)
    + (IF \E key \in {"accepted_genres_fiction", "accepted_genres_nonfiction"} :
              IsArr(Get(agent, key)) /\ Get(agent, key).v # <<>>
       THEN 5 ELSE 0)
    + (IF IsBool(Get(agent, "is_open_to_submissions")) THEN 10 ELSE 0)
    + (IF \E key \in requirementFlags : Truthy(Get(agent, key)) THEN 10 ELSE 0)
    + (IF isValidUrl(Get(agent, "website")) THEN 5 ELSE 0)

\* C19: calculateConfidence returns exactly the sum of the weights of the
\* criteria the record satisfies (name 30, valid email 20, organization 20,
\* a taxonomy term 5, boolean submission status 10, a submission requirement
\* flag set on the record 10, valid web address 5), within 0..100, and an
\* email that starts with a generic prefix in any letter case earns no 20.
C19_ConfidenceIsSumOfWeights ==
    vPc = "scored" =>
        /\ vScore = Num(WeightOfCriteria(vRecord))
        /\ vScore.v \in 0..100
        /\ (\E prefix \in genericPrefixes :
               StartsWith(ToLowerCase(vRecord.email.v), prefix)) =>
              vScore.v = Num(WeightOfCriteria([vRecord EXCEPT !.email = Str(<<>>)])).v

\* the indices of `agents` whose records, in order, are `unique`, when the
\* dropped records are each a duplicate of a retained record before them
RetainedIndices(agents, unique) ==
    {kept \in SUBSET DOMAIN agents :
        /\ Cardinality(kept) = Len(unique)
        /\ \A i \in kept :
               unique[Cardinality({j \in kept : j <= i})] = agents[i]
        /\ \A i \in DOMAIN agents \ kept :
               \E j \in kept : j < i /\ isDuplicate(agents[j], agents[i])}

InFlight == {w \in DOMAIN spWorkers : spWorkers[w].st = "fetching"}

\* C21: at every moment of scrapeParallel the fetches in flight are at most
\* the configured concurrency and at most the number of URLs; a worker has
\* one fetch outstanding at most, and is given another URL only in the step
\* in which its previous fetch settles and its entry is pushed.
C21_FetchesWithinConcurrency ==
    /\ [](spPc = "running" =>
             /\ Cardinality(InFlight) <= spConcurrency
             /\ Cardinality(InFlight) <= Len(spUrls)
             /\ Len(spWorkers) <= spConcurrency)
    /\ [][spPc = "running" =>
             \A w \in DOMAIN spWorkers :
                 spWorkers'[w] # spWorkers[w] =>
                     /\ spWorkers[w].st = "fetching"
                     /\ Len(spResults') = Len(spResults) + 1
                     /\ spResults'[Len(spResults')].url = spWorkers[w].url]_vars

\* every worker is fetching, one of them its second URL, and URLs are left
C21_Witness ==
    /\ spPc = "running" /\ spConcurrency >= 2
    /\ Cardinality(InFlight) = spConcurrency
    /\ spResults # <<>> /\ spQueue # <<>>

\* C22: the save operation hands every record of the list to the sink once,
\* in list order, whatever the sink answered for the records before it; it
\* responds, and the counts it reports add up to the number of records.
C22_EveryRecordSubmittedOnce ==
    /\ [](IsArr(saBody) =>
             /\ Len(saSubmitted) <= Len(saBody.v)
             /\ saSubmitted = SubSeq(saBody.v, 1, Len(saSubmitted))
             /\ Len(saSaved) + Len(saFailed) \in
                    {Len(saSubmitted), Len(saSubmitted) - 1})
    /\ [](saPc = "responded" /\ IsArr(saBody) =>
             /\ saSubmitted = saBody.v
             /\ saOut.status = 200
             /\ saOut.saved + saOut.failed = Len(saBody.v))
    /\ (IsArr(saBody) ~> saPc = "responded")

\* the sink refused the first of three records and accepted the others
C22_Witness ==
    /\ saPc = "responded" /\ IsArr(saBody) /\ Len(saBody.v) = 3
    /\ saOut.failed = 1 /\ saOut.saved = 2
    /\ saFailed = <<saBody.v[1].agent_name>>

\* the calls suspended in initializeRegistry
Initializing == {t \in DOMAIN rTasks : rTasks[t].pc = "initializing"}

\* C23: seed initialization runs once: the classification calls that find
\* no registry never have two initializations in flight at a time, and an
\* initialization never writes over a registry that was already persisted.
C23_SeedInitializationOnce ==
    /\ [](Cardinality(Initializing) <= 1)
    /\ [][\A t \in Initializing :
             rTasks'[t].pc # "initializing" => rDisk = Null]_vars

\* C24: the agency knowledge is never taken from the error record: its
\* agency name is never 'Error', and no record the crawl accepted carries
\* 'Error' as its agency name.
C24_ErrorRecordNeverEstablishesKnowledge ==
    /\ cKnowledge # Null =>
           ~StrictEquals(cKnowledge.agency_name, Str(sError))
    /\ \A i \in DOMAIN cAgents :
           ~StrictEquals(cAgents[i].agency_name, Str(sError))

\* the normalized value that reaches the highest count first in sample order
FirstMostCommon(results, field) ==
    Let([i \in DOMAIN results |->
            JsString(NormalizeForComparison(Get(results[i], field)))],
        LAMBDA keys :
        keys[CHOOSE i \in DOMAIN keys :
                /\ \A j \in DOMAIN keys :
                       Occurrences(keys, keys[j]) <= Occurrences(keys, keys[i])
                /\ \A j \in 1..(i - 1) :
                       Occurrences(keys, keys[j]) < Occurrences(keys, keys[i])])

\* C25: when several normalized values of a field tie for the highest
\* count, the value that occurs first in sample order is the most common
\* one and the one the merged record holds, whatever the values are,
\* strings of digits such as "10" and "2" included.
C25_TieGoesToFirstSample ==
    scPc = "merged" /\ Len(scResults) >= 2 =>
        \A field \in DOMAIN scResults[1] \ metadataFields :
            /\ calculateFieldConsistency(scResults, field).mostCommon
                   = Str(FirstMostCommon(scResults, field))
            /\ Trim(ToLowerCase(scOut.merged[field].v))
                   = FirstMostCommon(scResults, field)

\* C26: every field of the merged record that the samples produced as a
\* string holds a value exactly as one of the samples produced it, with its
\* casing and spacing, whatever the field.
C26_MergedKeepsOriginalCasing ==
    scPc = "merged" /\ scResults # <<>> =>
        \A field \in DOMAIN scOut.merged :
            (/\ IsStr(scOut.merged[field])
             /\ \A i \in DOMAIN scResults : IsStr(Get(scResults[i], field))) =>
                \E i \in DOMAIN scResults :
                    Get(scResults[i], field) = scOut.merged[field]

\* the entries of the registry whose normalised name contains the normalised
\* raw term or is contained in it
ContainmentMatches(rawGenre, genres) ==
    {i \in DOMAIN genres :
        \/ Includes(normalize(rawGenre), normalize(genres[i].name))
        \/ Includes(normalize(genres[i].name), normalize(rawGenre))}

ExactMatches(rawGenre, genres) ==
    {i \in DOMAIN genres : normalize(genres[i].name) = normalize(rawGenre)}

\* C27: when no entry matches the raw term exactly and the normalised raw
\* term contains a canonical name or is contained in one, findBestMatch
\* returns such a canonical name with similarity 0.95 whatever the embedding
\* call would answer; against the seed vocabulary "Crime Fiction" is matched
\* to "Crime".
C27_ContainmentMatchesCanonicalName ==
    (/\ gPc = "done" /\ normalize(gRaw) # <<>>
     /\ ExactMatches(gRaw, gRegistry) = {}
     /\ ContainmentMatches(gRaw, gRegistry) # {}) =>
        /\ gOut.similarity = 95
        /\ \E i \in ContainmentMatches(gRaw, gRegistry) :
               gOut.match = Str(gRegistry[i].name)
        /\ gOut = findBestMatch(gRaw, gRegistry, NoEmbedding)
        /\ gRaw = sCrimeFiction => gOut.match = Str(sCrime)

\* C28: each successfully fetched page is extracted at most once, whatever
\* list of indices triage returns: no two rounds of the extraction loop work
\* on the same page.
C28_EachPageExtractedOnce ==
    \A i, j \in 1..cIdx : i # j => cPages[i].url # cPages[j].url

\* the links the discovery phase found: the sitemap's URLs, or else the links
\* of the page at the start URL
LinksFound == IF world.sitemap # <<>> THEN world.sitemap ELSE world.links

\* C29: every URL handed to the parallel fetch is the start URL or a
\* discovered link that passed the extension and boilerplate-path filter (the
\* link ranking can reorder the candidates but never add one), no URL is
\* fetched twice, and at most 26 URLs (the start URL and MAX_AGENT_LINKS
\* links) are fetched.
C29_FetchedAreSeedOrFilteredCandidates ==
    (spPc # "idle" /\ ~cSingle) =>
        /\ Let(uniqueLinks(LinksFound), LAMBDA candidates :
               \A i \in DOMAIN spUrls :
                   \/ spUrls[i] = cUrl
                   \/ \E j \in DOMAIN candidates : candidates[j] = spUrls[i])
        /\ \A i, j \in DOMAIN spUrls : i # j => spUrls[i] # spUrls[j]
        /\ Len(spUrls) <= MAX_AGENT_LINKS + 1
        /\ \A i \in DOMAIN spLog : \E j \in DOMAIN spUrls : spLog[i].url = spUrls[j]

\* C30: the record list the crawl endpoint responds with never holds two
\* records that are duplicates of each other, in dynamic mode and in single
\* mode with several URLs.
C30_ResponseHasNoDuplicates ==
    (apPc = "responded" /\ apOut.status = 200 /\ apOut.success) =>
        \A i, j \in DOMAIN apOut.agents :
            i # j => ~isDuplicate(apOut.agents[i], apOut.agents[j])

=========================================================================
